---- MODULE Spec2Model ----
(***************************************************************************)
(* Tangle coordination subsystem of the proxima node: the DAG of wrapped   *)
(* transactions (VIDs), the past-cone attacher of sequencer milestones,    *)
(* the ingress operation of the workflow and the branch registry.          *)
(***************************************************************************)
EXTENDS Integers, Sequences, FiniteSets, TLC

\* ------------------------------------------------------------------ bounds
\* number of transactions that double-spend the same output
NConflicts == 2
\* number of concurrent callers of AttachTxID
NCallers == 2
\* number of branch ids that can be registered in the branch registry
NBranchIds == 3
\* peers of the node
NPeers == 2
\* transactions that arrive at the node in one run of the gossip
MaxArrivals == 2
\* endorsements and produced outputs of a transaction under validation
MaxEndorsements == 2
MaxOutputs == 2
\* width of ledger.Amount in the model (uint64 in the program)
AmountBits == 3
\* proposer tasks of the milestone factory, and candidate transactions per target
NTasks == 2
NProposals == 3
\* sequencers the tip pool listens to, and timestamps of their milestones
NSequencers == 2
NTimestamps == 3
\* elements pushed to the queue in all, greatest buffer size
MaxPushes == 3
MaxBufSize == 1
\* pokes and periodic checks of one attacher, VIDs an attacher references
MaxPokes == 2
MaxPeriodic == 2
MaxReferenced == 2

\* ------------------------------------------------------- program constants
\* K of the parasitic chain rule (slots tolerated behind the consuming input)
maxToleratedParasiticChainSlots == 1
\* the largest slot the model represents; ledger.Slot is a uint32, the values a
\* wrapped subtraction produces are kept at the top of the integer range
MaxSlot == 2 ^ 30 + (2 ^ 30 - 1)

\* ---------------------------------------------------------------- statuses
Undefined == "Undefined"
Good == "Good"
Bad == "Bad"

FlagBaselineSolid == "BaselineSolid"
FlagEndorsementsSolid == "EndorsementsSolid"
FlagAllInputsSolid == "AllInputsSolid"
FlagTxBytesPersisted == "TxBytesPersisted"
FlagVertexTxAttachmentStarted == "TxAttachmentStarted"
FlagVertexTxAttachmentFinished == "TxAttachmentFinished"
FlagsSequencerVertexCompleted == {FlagBaselineSolid, FlagEndorsementsSolid, FlagAllInputsSolid}

\* ------------------------------------------------------ transaction universe
\* Transaction ids are pairs <<kind, number>>; an output id is <<txid, index>>.
Nil == <<"nil", 0>>
G == <<"G", 0>>
BA == <<"B", 1>>
BB == <<"B", 2>>
BC == <<"B", 3>>
MA == <<"M", 1>>
MB == <<"M", 2>>
MX == <<"M", 3>>
MY == <<"M", 4>>
MC == <<"M", 5>>
MQ == <<"M", 6>>
MV == <<"M", 7>>
MW == <<"M", 8>>
ME == <<"M", 9>>
MF == <<"M", 10>>
MP == <<"M", 11>>
MD == <<"M", 12>>
TQ == <<"Q", 0>>
TV == <<"V", 0>>
TI == <<"I", 0>>
TO == <<"O", 0>>
TP == <<"P", 0>>
T(i) == <<"T", i>>

NilLogicalTime == <<0, 0>>
NoReason == [kind |-> "none", oid |-> <<Nil, 0>>]
Reason(k, oid) == [kind |-> k, oid |-> oid]

\* v is computed once and its value is handed to Op
With(v, Op(_)) == CHOOSE res \in {Op(x) : x \in {v}} : TRUE

VARIABLES
    scenario,   \* which set of transactions exists in this run (fixed by Init)
    vx,         \* the VIDs of the DAG: txid -> WrappedTx
    branches,   \* DAG.branches: registered branch -> committed state reader
    att,        \* milestone attachers: sequencer txid -> attacher
    pulls,      \* txids with a registered pull request
    delayed,    \* txids whose attachment waits for their timestamp
    vidsCreated,\* txid -> number of VIDs ever added to the DAG for it
    ctxDone,    \* the context observed by the attachers is cancelled
    ingressReturned, \* bytes -> what TxBytesIn returned for them last: "none", "ok", "err"
    \* --- the DAG under its global mutex, with concurrent callers of AttachTxID
    dagMutex,        \* DAG.mutex: the writer that holds it (0: none) and the readers
    dagVertices,     \* DAG.vertices: txid -> the VID object stored for it
    dagPc,           \* caller -> where it is in AttachTxID / GetVertex
    dagTarget,       \* caller -> the txid it attaches
    dagLocal,        \* caller -> the VID its AttachTxID holds
    dagSeen,         \* caller -> the VID its later GetVertex returned
    dagInserted,     \* txid -> number of insertions into DAG.vertices
    dagAssertFailed, \* the assertion of AddVertexNoLock failed
    \* --- the branch registry read by HeaviestBranchOfLatestTimeSlot
    hbBranches,      \* registered branch id -> [slot, coverage]
    hbPc,            \* where the caller of HeaviestBranchOfLatestTimeSlot is
    hbSlot,          \* the slot LatestBranchSlot returned to it
    hbChanged,       \* a branch was registered since the call read the latest slot
    hbResult,        \* the branch the call returned
    hbMoments,       \* the heaviest branch of the latest slot at each moment of the call
    \* --- the gossip of incoming transactions to the peers
    gsPullList,      \* txids the node has requested from its peers
    gsPrimary,       \* queue of the primary input consumer
    gsOutbound,      \* queue of the outbound (gossip) consumer
    gsLog,           \* the calls of GossipTxBytesToPeers so far, with their recipients
    gsArrivals,      \* number of transactions that arrived so far
    \* --- the validation options of a transaction
    tvTx,            \* the transaction the validation options are applied to
    tvEndorsementsErr,\* what CheckEndorsements returned for it
    tvOutputsErr,    \* what ScanOutputs returned for it
    \* --- the payload of one VID and the operations on it
    vpVid,           \* a VID: its payload, status and what the payload holds
    vpLast,          \* the last operation on it: its name, what it returned, its panic
    \* --- the milestone factory and its proposer tasks
    prProposal,      \* factory.proposal: targetTs, bestSoFarCoverage, current
    prTasks,         \* proposer task -> its targetTs and its alreadyProposed set
    prTargets,       \* number of targets the factory has started proposing for
    prOffered,       \* the candidates the workers offered for the current target
    prReturned,      \* what startProposingForTargetLogicalTime read at the last deadline
    \* --- the tip pool of a sequencer
    tpLatestMilestones, \* SequencerTipPool.latestMilestones: sequencer id -> stored milestone
    \* --- the consumer queue
    queue,           \* the Queue: d, in, out, inSignal, closing and whether the channels are closed
    qLoop,           \* position of queueLoop and the element it holds
    qPush,           \* pushing thread -> position in push and its element
    qConsumer,       \* the elements Consume received, and whether it saw out closed
    qReturned,       \* the elements whose Push returned true, in the order they took effect
    \* --- one milestone attacher and the threads that poke it
    pkAttacher,      \* one milestoneAttacher: where it is in run and lazyRepeat, pokeChan, finals
    pkStatus,        \* the status of the milestone of the attacher
    pkCtxDone,       \* the context of the attacher is cancelled
    pkPoker,         \* the thread that pokes: idle, or blocked in a send
    \* --- the read-write mutexes of the VIDs, of the tangle and of an attacher
    lkMutex,         \* sync.RWMutex by owner: the threads that read-hold it and how often, its writer
    lkPc,            \* thread -> how many of the lock operations of its call it has done
    \* --- the additional outputs a milestone makes from sequencer commands
    aoInputs,        \* the fee inputs handed to makeAdditionalInputsOutputs
    aoMaximumTotal,  \* its maximumTotal
    aoReturned,      \* what it returned: the inputs kept and the additional outputs
    \* --- the calls that wait for the attachment of a transaction
    awCall,          \* call -> the function called, whether ingress fails, what the attacher reports
    awMain,          \* call -> where the caller is and what it returns
    awWriter,        \* call -> where the goroutine that writes the result is
    awChan           \* call -> the close mutex and the closed flag of the result channel

attVars == <<scenario, vx, branches, att, pulls, delayed, vidsCreated, ctxDone,
             ingressReturned>>
dagVars == <<dagMutex, dagVertices, dagPc, dagTarget, dagLocal, dagSeen, dagInserted,
             dagAssertFailed>>
hbVars == <<hbBranches, hbPc, hbSlot, hbChanged, hbResult, hbMoments>>

gsVars == <<gsPullList, gsPrimary, gsOutbound, gsLog, gsArrivals>>

tvVars == <<tvTx, tvEndorsementsErr, tvOutputsErr>>

vpVars == <<vpVid, vpLast>>

prVars == <<prProposal, prTasks, prTargets, prOffered, prReturned>>

tpVars == <<tpLatestMilestones>>

qVars == <<queue, qLoop, qPush, qConsumer, qReturned>>

pkVars == <<pkAttacher, pkStatus, pkCtxDone, pkPoker>>

lkVars == <<lkMutex, lkPc>>

aoVars == <<aoInputs, aoMaximumTotal, aoReturned>>

awVars == <<awCall, awMain, awWriter, awChan>>

vars == <<attVars, dagVars, hbVars, gsVars, tvVars, vpVars, prVars, tpVars, qVars, pkVars, lkVars, aoVars, awVars>>

\* what the steps of one part of the node leave alone
attFrame == <<dagVars, hbVars, gsVars, tvVars, vpVars, prVars, tpVars, qVars, pkVars, lkVars, aoVars, awVars>>
dagFrame == <<attVars, hbVars, gsVars, tvVars, vpVars, prVars, tpVars, qVars, pkVars, lkVars, aoVars, awVars>>
hbFrame == <<attVars, dagVars, gsVars, tvVars, vpVars, prVars, tpVars, qVars, pkVars, lkVars, aoVars, awVars>>
gsFrame == <<attVars, dagVars, hbVars, tvVars, vpVars, prVars, tpVars, qVars, pkVars, lkVars, aoVars, awVars>>
tvFrame == <<attVars, dagVars, hbVars, gsVars, vpVars, prVars, tpVars, qVars, pkVars, lkVars, aoVars, awVars>>
vpFrame == <<attVars, dagVars, hbVars, gsVars, tvVars, prVars, tpVars, qVars, pkVars, lkVars, aoVars, awVars>>
prFrame == <<attVars, dagVars, hbVars, gsVars, tvVars, vpVars, tpVars, qVars, pkVars, lkVars, aoVars, awVars>>
tpFrame == <<attVars, dagVars, hbVars, gsVars, tvVars, vpVars, prVars, qVars, pkVars, lkVars, aoVars, awVars>>
qFrame == <<attVars, dagVars, hbVars, gsVars, tvVars, vpVars, prVars, tpVars, pkVars, lkVars, aoVars, awVars>>
pkFrame == <<attVars, dagVars, hbVars, gsVars, tvVars, vpVars, prVars, tpVars, qVars, lkVars, aoVars, awVars>>
lkFrame == <<attVars, dagVars, hbVars, gsVars, tvVars, vpVars, prVars, tpVars, qVars, pkVars, aoVars, awVars>>
aoFrame == <<attVars, dagVars, hbVars, gsVars, tvVars, vpVars, prVars, tpVars, qVars, pkVars, lkVars, awVars>>
awFrame == <<attVars, dagVars, hbVars, gsVars, tvVars, vpVars, prVars, tpVars, qVars, pkVars, lkVars, aoVars>>

\* a part of the node that does not move in a run
DagIdle ==
    /\ dagMutex = [writer |-> 0, readers |-> {}]
    /\ dagVertices = <<>>
    /\ dagPc = <<>>
    /\ dagTarget = <<>>
    /\ dagLocal = <<>>
    /\ dagSeen = <<>>
    /\ dagInserted = <<>>
    /\ dagAssertFailed = FALSE

HbIdle ==
    /\ hbBranches = <<>>
    /\ hbPc = "off"
    /\ hbSlot = 0
    /\ hbChanged = FALSE
    /\ hbResult = 0
    /\ hbMoments = {}

GsIdle ==
    /\ gsPullList = {}
    /\ gsPrimary = <<>>
    /\ gsOutbound = <<>>
    /\ gsLog = <<>>
    /\ gsArrivals = MaxArrivals

TvIdle ==
    /\ tvTx = <<>>
    /\ tvEndorsementsErr = "off"
    /\ tvOutputsErr = "off"

VpIdle ==
    /\ vpVid = <<>>
    /\ vpLast = <<>>

PrIdle ==
    /\ prProposal = <<>>
    /\ prTasks = <<>>
    /\ prTargets = 0
    /\ prOffered = {}
    /\ prReturned = <<>>

TpIdle ==
    /\ tpLatestMilestones = <<>>

QIdle ==
    /\ queue = <<>>
    /\ qLoop = <<>>
    /\ qPush = <<>>
    /\ qConsumer = <<>>
    /\ qReturned = <<>>

PkIdle ==
    /\ pkAttacher = <<>>
    /\ pkStatus = ""
    /\ pkCtxDone = FALSE
    /\ pkPoker = "idle"

LkIdle ==
    /\ lkMutex = <<>>
    /\ lkPc = <<>>

AoIdle ==
    /\ aoInputs = <<>>
    /\ aoMaximumTotal = 0
    /\ aoReturned = <<>>

AwIdle ==
    /\ awCall = <<>>
    /\ awMain = <<>>
    /\ awWriter = <<>>
    /\ awChan = <<>>

\* every part but part g is idle; the attachers are dealt with by AttIdle
IdleExcept(g) ==
    /\ IF g = "dag" THEN TRUE ELSE DagIdle
    /\ IF g = "hb" THEN TRUE ELSE HbIdle
    /\ IF g = "gossip" THEN TRUE ELSE GsIdle
    /\ IF g = "validation" THEN TRUE ELSE TvIdle
    /\ IF g = "payload" THEN TRUE ELSE VpIdle
    /\ IF g = "proposer" THEN TRUE ELSE PrIdle
    /\ IF g = "tippool" THEN TRUE ELSE TpIdle
    /\ IF g = "queue" THEN TRUE ELSE QIdle
    /\ IF g = "poke" THEN TRUE ELSE PkIdle
    /\ IF g = "locks" THEN TRUE ELSE LkIdle
    /\ IF g = "outputs" THEN TRUE ELSE AoIdle
    /\ IF g = "wait" THEN TRUE ELSE AwIdle

Scenarios == {"doublespend", "branches", "baseline", "ingress", "errors", "cascade",
              "crosscascade", "parasitic"}

TxIdsOf(scn) ==
    CASE scn = "doublespend" -> {G, BA, MA, MB, MC} \cup {T(i) : i \in 1..NConflicts}
      [] scn = "branches" -> {G, BA, BB, MA, MB, MX, MY}
      [] scn = "baseline" -> {G, BA, TQ, MQ, TV, MV}
      [] scn = "ingress" -> {G, BA, T(1), MA}
      [] scn = "errors" -> {G, T(1), TI}
      [] scn = "cascade" -> {G, BA, TV, MV, MW, MB, ME}
      [] scn = "crosscascade" -> {G, BA, BB, TV, MV, MF}
      [] scn = "parasitic" -> {G, BA, BC, TO, TP, MP, MD}

AllTxIds == UNION {TxIdsOf(s) : s \in Scenarios}
TxIds == TxIdsOf(scenario)

SeqTx(ts, ins, ends, outs) ==
    [ts |-> ts, seq |-> TRUE, branch |-> FALSE, inputs |-> ins, endorsements |-> ends,
     amounts |-> outs, valid |-> TRUE, prevalid |-> TRUE, predIdx |-> 0, stemIdx |-> 255]
BranchTx(ts, ins, outs) ==
    [ts |-> ts, seq |-> TRUE, branch |-> TRUE, inputs |-> ins, endorsements |-> <<>>,
     amounts |-> outs, valid |-> TRUE, prevalid |-> TRUE, predIdx |-> 0, stemIdx |-> 1]
PlainTx(ts, ins, outs, valid) ==
    [ts |-> ts, seq |-> FALSE, branch |-> FALSE, inputs |-> ins, endorsements |-> <<>>,
     amounts |-> outs, valid |-> valid, prevalid |-> TRUE, predIdx |-> 255, stemIdx |-> 255]

\* The transactions of a scenario.  inputs are output ids, input #0 of a
\* sequencer transaction is its chain predecessor, input #1 of a branch is the stem.
TxOf(scn, t) ==
    CASE t = G -> BranchTx(<<1, 0>>, <<>>, <<100, 0, 100, 10, 7>>)
      [] t = BA -> BranchTx(<<2, 0>>, << <<G, 0>>, <<G, 1>> >>, <<100, 0>>)
      [] t = BB -> BranchTx(<<2, 0>>, << <<G, 2>>, <<G, 1>> >>, <<100, 0>>)
      [] t[1] = "T" -> PlainTx(<<2, t[2]>>, << <<G, 3>> >>, <<10>>, TRUE)
      [] t = TQ -> PlainTx(<<2, 1>>, << <<G, 0>> >>, <<100>>, TRUE)
      [] t = TV -> PlainTx(<<2, 2>>, << <<G, 4>> >>, <<7>>, FALSE)
      [] t = TI -> [PlainTx(<<2, 3>>, << <<G, 4>> >>, <<7>>, TRUE) EXCEPT !.prevalid = FALSE]
      [] t = MA /\ scn \in {"doublespend", "ingress"} ->
            SeqTx(<<2, 20>>, << <<BA, 0>>, <<T(1), 0>> >>, <<>>, <<110>>)
      [] t = MB /\ scn = "doublespend" ->
            SeqTx(<<2, 20>>, << <<BA, 0>>, <<T(2), 0>> >>, <<>>, <<110>>)
      [] t = MC ->
            SeqTx(<<2, 40>>, << <<BA, 0>> >> \o [i \in 1..NConflicts |-> <<T(i), 0>>], <<>>, <<120>>)
      [] t = MA /\ scn = "branches" -> SeqTx(<<2, 20>>, << <<BA, 0>> >>, <<>>, <<100>>)
      [] t = MB /\ scn = "branches" -> SeqTx(<<2, 20>>, << <<BB, 0>> >>, <<>>, <<60, 40>>)
      [] t = MX -> SeqTx(<<2, 30>>, << <<MA, 0>> >>, <<MB>>, <<100>>)
      [] t = MY -> SeqTx(<<2, 30>>, << <<MA, 0>>, <<MB, 1>> >>, <<>>, <<140>>)
      [] t = MQ -> SeqTx(<<2, 40>>, << <<BA, 0>>, <<TQ, 0>> >>, <<>>, <<200>>)
      [] t = MV -> SeqTx(<<2, 40>>, << <<BA, 0>>, <<G, 3>>, <<TV, 0>> >>, <<>>, <<117>>)
      [] t = BC -> BranchTx(<<3, 0>>, << <<BA, 0>>, <<BA, 1>> >>, <<100, 0>>)
      [] t = TO -> PlainTx(<<1, 5>>, << <<G, 3>> >>, <<10>>, TRUE)
      [] t = TP -> PlainTx(<<3, 5>>, << <<TO, 0>> >>, <<10>>, TRUE)
      [] t = MP -> SeqTx(<<3, 20>>, << <<BC, 0>>, <<TP, 0>> >>, <<>>, <<110>>)
      [] t = MD -> SeqTx(<<3, 20>>, << <<BC, 0>>, <<TO, 0>> >>, <<>>, <<110>>)
      [] t = MW -> SeqTx(<<2, 50>>, << <<BA, 0>>, <<TV, 0>> >>, <<>>, <<107>>)
      [] t = MB /\ scn = "cascade" -> SeqTx(<<2, 10>>, << <<G, 2>> >>, <<BA>>, <<100>>)
      [] t = ME -> SeqTx(<<2, 50>>, << <<MB, 0>> >>, <<MV>>, <<100>>)
      [] t = MF -> SeqTx(<<2, 50>>, << <<BB, 0>> >>, <<MV>>, <<100>>)
      [] OTHER -> PlainTx(<<0, 0>>, <<>>, <<>>, FALSE)

Tx(t) == TxOf(scenario, t)

\* the transactions whose timestamp may be ahead of the local clock when their
\* bytes arrive: the clock runs behind in scenarios "ingress" and "errors" only
MayBeInTheFuture ==
    CASE scenario = "ingress" -> TxIds
      [] scenario = "errors" -> {T(1)}
      [] OTHER -> {}

\* the transactions whose timestamp may be beyond the upper time bound
MayExceedUpperBound == IF scenario = "errors" THEN {T(1)} ELSE {}

\* ------------------------------------------------------- ids and timestamps
IsSequencerMilestone(t) == Tx(t).seq
IsBranchTransaction(t) == Tx(t).branch
Timestamp(t) == Tx(t).ts
Slot(t) == Tx(t).ts[1]
NumInputs(t) == Len(Tx(t).inputs)
NumEndorsements(t) == Len(Tx(t).endorsements)
NumProducedOutputs(t) == Len(Tx(t).amounts)
\* 0-based accessors, as in the code
MustInputAt(t, i) == Tx(t).inputs[i + 1]
EndorsementAt(t, i) == Tx(t).endorsements[i + 1]
Amount(oid) == Tx(oid[1]).amounts[oid[2] + 1]

After(ts1, ts2) == ts1[1] > ts2[1] \/ (ts1[1] = ts2[1] /\ ts1[2] > ts2[2])
Before(ts1, ts2) == After(ts2, ts1)

\* wrapping subtraction on ledger.Slot (uint32)
SlotMinus(slot, k) == IF slot >= k THEN slot - k ELSE MaxSlot - (k - slot - 1)

\* ------------------------------------------------------------ vertex layer
\* A VID that is not in the DAG has payload "none".
NoVID ==
    [payload |-> "none", status |-> Undefined, reason |-> NoReason, vidFlags |-> {},
     flags |-> {}, Inputs |-> <<>>, Endorsements |-> <<>>, BaselineBranch |-> Nil, consumers |-> {}]

\* vertex.WrapTxID: a new VID holding a virtual transaction
WrapTxID(txid) == [NoVID EXCEPT !.payload = "virtual"]

\* vertex.New: a full vertex with unresolved inputs and endorsements.  A
\* non-sequencer vertex needs no baseline, its baseline flag is up from the start.
NewVertex(txid) ==
    [payload |-> "vertex",
     flags |-> IF IsSequencerMilestone(txid) THEN {} ELSE {FlagBaselineSolid},
     Inputs |-> [i \in 1..NumInputs(txid) |-> Nil],
     Endorsements |-> [i \in 1..NumEndorsements(txid) |-> Nil],
     BaselineBranch |-> Nil]

GetTxStatus(w, vid) == w.vx[vid].status
GetReason(w, vid) == w.vx[vid].reason
FlagsUp(w, vid, fl) == fl \subseteq w.vx[vid].flags
SetFlagUp(w, vid, fl) == [w EXCEPT !.vx[vid].flags = @ \cup {fl}]

\* WrappedTx.SetTxStatus: the status is overwritten, whatever it was
SetTxStatus(w, vid, s) == [w EXCEPT !.vx[vid].status = s]
SetTxStatusGood(w, vid) == SetTxStatus(w, vid, Good)
SetTxStatusBad(w, vid, reason) ==
    [SetTxStatus(w, vid, Bad) EXCEPT !.vx[vid].reason = reason]

\* WrappedTx.BaselineBranch
BaselineBranch(w, vid) ==
    CASE w.vx[vid].payload = "vertex" -> w.vx[vid].BaselineBranch
      [] w.vx[vid].payload = "virtual" ->
            IF IsBranchTransaction(vid) /\ w.vx[vid].status = Good THEN vid ELSE Nil
      [] OTHER -> Nil

\* WrappedTx.ConvertToVirtualTx: a full vertex sheds its transaction
ConvertVertexToVirtualTx(w, vid) ==
    IF w.vx[vid].payload = "vertex"
    THEN [w EXCEPT !.vx[vid].payload = "virtual",
                   !.vx[vid].Inputs = <<>>,
                   !.vx[vid].Endorsements = <<>>,
                   !.vx[vid].BaselineBranch = Nil]
    ELSE w

\* WrappedTx.ConvertVirtualTxToVertex
ConvertVirtualTxToVertex(w, vid) ==
    [w EXCEPT !.vx[vid] = [f \in DOMAIN @ |->
        IF f \in DOMAIN NewVertex(vid) THEN NewVertex(vid)[f] ELSE @[f]]]

ConsumersOf(w, vid, idx) == {c[2] : c \in {x \in w.vx[vid].consumers : x[1] = idx}}

\* WrappedTx.AttachConsumer: the consumer is inserted into the consumers of the
\* output iff the check finds no conflict among the existing consumers
AttachConsumer(w, vid, idx, consumer, conflict) ==
    IF conflict
    THEN [w |-> w, ok |-> FALSE]
    ELSE [w |-> [w EXCEPT !.vx[vid].consumers = @ \cup {<<idx, consumer>>}], ok |-> TRUE]

\* ---------------------------------------------------------------------- DAG
\* variant: the lookup misses every id
GetVertexNoLock_Miss(w, txid) == Nil

\* DAG.GetVertexNoLock
GetVertexNoLock(w, txid) == IF w.vx[txid].payload = "none" THEN Nil ELSE txid

\* DAG.AddVertexNoLock: the map entry of the id is (over)written with the new VID
AddVertexNoLock(w, txid, vid) ==
    [w EXCEPT !.vx[txid] = vid,
              !.created[txid] = @ + 1]

\* attacher.AttachTxID: the VID of the id, created as a virtual transaction
\* when the DAG does not have it; a missing non-branch may be pulled
AttachTxID(w0, txid, pullNonBranch) ==
    With(w0, LAMBDA w :
    IF GetVertexNoLock(w, txid) # Nil
    THEN w
    ELSE IF pullNonBranch /\ ~IsBranchTransaction(txid)
         THEN [AddVertexNoLock(w, txid, WrapTxID(txid)) EXCEPT !.pulls = @ \cup {txid}]
         ELSE AddVertexNoLock(w, txid, WrapTxID(txid)))

\* ------------------------------------------------------------ state readers
\* The committed state of a branch: its unspent outputs and the transactions it knows.
KnowsCommittedTransaction(state, txid) == txid \in state.known
GetOutput(state, oid) == oid \in state.utxo
HasUTXO(state, oid) == oid \in state.utxo

\* DAG.GetStateReaderForTheBranch
GetStateReaderForTheBranch(w, branchVID) == w.branches[branchVID]

\* the branch that produced the stem output a branch consumes
StemPredecessor(b) == IF NumInputs(b) = 0 THEN Nil ELSE MustInputAt(b, Tx(b).stemIdx)[1]

\* multistate.BranchIsDescendantOf: anc is reached from desc along the stem
RECURSIVE BranchIsDescendantOf(_, _)
BranchIsDescendantOf(desc, anc) ==
    IF desc = anc THEN TRUE
    ELSE IF StemPredecessor(desc) = Nil THEN FALSE
    ELSE BranchIsDescendantOf(StemPredecessor(desc), anc)

\* ----------------------------------------------------- past cone attacher
NoAttacher ==
    [phase |-> "none", baselineBranch |-> Nil, rooted |-> {},
     validPastVertices |-> {}, undefinedPastVertices |-> {},
     coverageDelta |-> 0, reason |-> NoReason, askedForPoke |-> {}]

\* newPastConeAttacher
newPastConeAttacher == [NoAttacher EXCEPT !.phase = "started"]

setReason(w, err) == [w EXCEPT !.a.reason = err]

\* variant: the attacher does not ask to be poked
pokeMe_NoRegister(w, with) == w

\* milestoneAttacher.pokeMe: the attacher asks, once for each VID, to be poked
\* when something changes with the VID; askedForPoke holds the VIDs whose
\* flag FlagAttachedVertexAskedForPoke is up
pokeMe(w, with) == [w EXCEPT !.a.askedForPoke = @ \cup {with}]

\* attacher.baselineStateReader
baselineStateReader(w) == GetStateReaderForTheBranch(w, w.a.baselineBranch)

\* variant: a validated vertex leaves the undefined set and is not remembered
pastConeVertexVisited_Forget(w, vid, good) ==
    IF good
    THEN [w EXCEPT !.a.undefinedPastVertices = @ \ {vid}]
    ELSE [w EXCEPT !.a.undefinedPastVertices = @ \cup {vid}]

\* attacher.pastConeVertexVisited
pastConeVertexVisited(w, vid, good) ==
    IF good
    THEN [w EXCEPT !.a.undefinedPastVertices = @ \ {vid},
                   !.a.validPastVertices = @ \cup {vid}]
    ELSE [w EXCEPT !.a.undefinedPastVertices = @ \cup {vid}]

\* attacher.isKnownVertex
isKnownVertex(w, vid) ==
    vid \in w.a.validPastVertices \/ vid \in w.a.undefinedPastVertices

\* attacher.isRooted
isRooted(w, vid) == \E oid \in w.a.rooted : oid[1] = vid

\* variant: two branches of one slot pass as compatible
branchesCompatible_SameSlot(vid1, vid2) ==
    CASE vid1 = vid2 -> TRUE
      [] Slot(vid1) = Slot(vid2) -> TRUE
      [] Slot(vid1) < Slot(vid2) -> BranchIsDescendantOf(vid2, vid1)
      [] OTHER -> BranchIsDescendantOf(vid1, vid2)

\* variant: any two branches pass as compatible
branchesCompatible_Always(vid1, vid2) == TRUE

\* attacher.branchesCompatible
branchesCompatible(vid1, vid2) ==
    CASE vid1 = vid2 -> TRUE
      [] Slot(vid1) = Slot(vid2) -> FALSE
      [] Slot(vid1) < Slot(vid2) -> BranchIsDescendantOf(vid2, vid1)
      [] OTHER -> BranchIsDescendantOf(vid1, vid2)

\* variant: no existing consumer is a conflict
checkConflictsFunc_NoCheck(w, consumerTx, existingConsumers) == FALSE

\* variant: only the undefined past vertices are looked at
checkConflictsFunc_UndefinedOnly(w, consumerTx, existingConsumers) ==
    \E existingConsumer \in existingConsumers :
        /\ existingConsumer # consumerTx
        /\ existingConsumer \in w.a.undefinedPastVertices

\* attacher.checkConflictsFunc: an existing consumer other than consumerTx
\* already belongs to the past cone of the attacher
checkConflictsFunc(w, consumerTx, existingConsumers) ==
    \E existingConsumer \in existingConsumers :
        /\ existingConsumer # consumerTx
        /\ \/ existingConsumer \in w.a.validPastVertices
           \/ existingConsumer \in w.a.undefinedPastVertices

\* variant: the status of the producer of the input is not looked at
attachInputID_NoBadCheck(w0, consumerTx, inputIdx) ==
    With(w0, LAMBDA w :
    LET inputOid == MustInputAt(consumerTx, inputIdx)
        known == w.vx[consumerTx].Inputs[inputIdx + 1]
        vidInputTx == IF known = Nil THEN inputOid[1] ELSE known
    IN  With(IF known = Nil THEN AttachTxID(w, inputOid[1], FALSE) ELSE w, LAMBDA w1 :
          With(AttachConsumer(w1, vidInputTx, inputOid[2], consumerTx,
                   checkConflictsFunc(w1, consumerTx, ConsumersOf(w1, vidInputTx, inputOid[2]))),
               LAMBDA r :
          LET inputBaselineBranch == BaselineBranch(r.w, vidInputTx)
          IN  IF ~r.ok
              THEN [w |-> setReason(r.w, Reason("conflict", inputOid)), ok |-> FALSE]
              ELSE IF /\ IsSequencerMilestone(vidInputTx)
                      /\ inputBaselineBranch # Nil
                      /\ ~branchesCompatible(r.w.a.baselineBranch, inputBaselineBranch)
              THEN [w |-> setReason(r.w, Reason("incompatible", <<inputBaselineBranch, 0>>)),
                    ok |-> FALSE]
              ELSE [w |-> [r.w EXCEPT !.vx[consumerTx].Inputs[inputIdx + 1] = vidInputTx],
                    ok |-> TRUE])))

\* attacher.attachInputID
attachInputID(w0, consumerTx, inputIdx) ==
    With(w0, LAMBDA w :
    LET inputOid == MustInputAt(consumerTx, inputIdx)
        known == w.vx[consumerTx].Inputs[inputIdx + 1]
        vidInputTx == IF known = Nil THEN inputOid[1] ELSE known
    IN  With(IF known = Nil THEN AttachTxID(w, inputOid[1], FALSE) ELSE w, LAMBDA w1 :
        IF GetTxStatus(w1, vidInputTx) = Bad
        THEN [w |-> setReason(w1, GetReason(w1, vidInputTx)), ok |-> FALSE]
        ELSE
          With(AttachConsumer(w1, vidInputTx, inputOid[2], consumerTx,
                   checkConflictsFunc(w1, consumerTx, ConsumersOf(w1, vidInputTx, inputOid[2]))),
               LAMBDA r :
          LET inputBaselineBranch == BaselineBranch(r.w, vidInputTx)
          IN  IF ~r.ok
              THEN [w |-> setReason(r.w, Reason("conflict", inputOid)), ok |-> FALSE]
              ELSE IF /\ IsSequencerMilestone(vidInputTx)
                      /\ inputBaselineBranch # Nil
                      /\ ~branchesCompatible(r.w.a.baselineBranch, inputBaselineBranch)
              THEN [w |-> setReason(r.w, Reason("incompatible", <<inputBaselineBranch, 0>>)),
                    ok |-> FALSE]
              ELSE [w |-> [r.w EXCEPT !.vx[consumerTx].Inputs[inputIdx + 1] = vidInputTx],
                    ok |-> TRUE])))

\* variant: an output of a transaction the baseline state does not know is
\* looked up in the state, too
attachRooted_NoUnknownCase(w0, wOut) ==
    With(w0, LAMBDA w :
    IF After(Timestamp(wOut[1]), Timestamp(w.a.baselineBranch))
    THEN [w |-> w, ok |-> TRUE, isRooted |-> FALSE]
    ELSE
      LET consumedRooted == {oid[2] : oid \in {o \in w.a.rooted : o[1] = wOut[1]}}
          stateReader == baselineStateReader(w)
      IN  IF wOut[2] \in consumedRooted
          THEN [w |-> w, ok |-> TRUE, isRooted |-> TRUE]
          ELSE IF GetOutput(stateReader, wOut)
          THEN [w |-> [w EXCEPT !.a.rooted = @ \cup {wOut},
                                !.a.coverageDelta = @ + Amount(wOut)],
                ok |-> TRUE, isRooted |-> TRUE]
          ELSE [w |-> setReason(w, Reason("consumedInBaseline", wOut)),
                ok |-> FALSE, isRooted |-> FALSE])

\* variant: the output is recorded as rooted without being looked up in the state
attachRooted_NoStateCheck(w0, wOut) ==
    With(w0, LAMBDA w :
    IF After(Timestamp(wOut[1]), Timestamp(w.a.baselineBranch))
    THEN [w |-> w, ok |-> TRUE, isRooted |-> FALSE]
    ELSE
      LET consumedRooted == {oid[2] : oid \in {o \in w.a.rooted : o[1] = wOut[1]}}
          stateReader == baselineStateReader(w)
      IN  IF wOut[2] \in consumedRooted
          THEN [w |-> w, ok |-> TRUE, isRooted |-> TRUE]
          ELSE IF consumedRooted = {} /\ ~KnowsCommittedTransaction(stateReader, wOut[1])
          THEN [w |-> w, ok |-> TRUE, isRooted |-> FALSE]
          ELSE [w |-> [w EXCEPT !.a.rooted = @ \cup {wOut},
                                !.a.coverageDelta = @ + Amount(wOut)],
                ok |-> TRUE, isRooted |-> TRUE])

\* variant: an output that is already rooted is looked up and counted again
attachRooted_NoCoveredCheck(w0, wOut) ==
    With(w0, LAMBDA w :
    IF After(Timestamp(wOut[1]), Timestamp(w.a.baselineBranch))
    THEN [w |-> w, ok |-> TRUE, isRooted |-> FALSE]
    ELSE
      LET consumedRooted == {oid[2] : oid \in {o \in w.a.rooted : o[1] = wOut[1]}}
          stateReader == baselineStateReader(w)
      IN  IF consumedRooted = {} /\ ~KnowsCommittedTransaction(stateReader, wOut[1])
          THEN [w |-> w, ok |-> TRUE, isRooted |-> FALSE]
          ELSE IF GetOutput(stateReader, wOut)
          THEN [w |-> [w EXCEPT !.a.rooted = @ \cup {wOut},
                                !.a.coverageDelta = @ + Amount(wOut)],
                ok |-> TRUE, isRooted |-> TRUE]
          ELSE [w |-> setReason(w, Reason("consumedInBaseline", wOut)),
                ok |-> FALSE, isRooted |-> FALSE])

\* attacher.attachRooted
attachRooted(w0, wOut) ==
    With(w0, LAMBDA w :
    IF After(Timestamp(wOut[1]), Timestamp(w.a.baselineBranch))
    THEN [w |-> w, ok |-> TRUE, isRooted |-> FALSE]
    ELSE
      LET consumedRooted == {oid[2] : oid \in {o \in w.a.rooted : o[1] = wOut[1]}}
          stateReader == baselineStateReader(w)
      IN  IF wOut[2] \in consumedRooted
          THEN [w |-> w, ok |-> TRUE, isRooted |-> TRUE]
          ELSE IF consumedRooted = {} /\ ~KnowsCommittedTransaction(stateReader, wOut[1])
          THEN [w |-> w, ok |-> TRUE, isRooted |-> FALSE]
          ELSE IF GetOutput(stateReader, wOut)
          THEN [w |-> [w EXCEPT !.a.rooted = @ \cup {wOut},
                                !.a.coverageDelta = @ + Amount(wOut)],
                ok |-> TRUE, isRooted |-> TRUE]
          ELSE [w |-> setReason(w, Reason("consumedInBaseline", wOut)),
                ok |-> FALSE, isRooted |-> FALSE])

\* Environment.Pull
Pull(w, txid) == [w EXCEPT !.pulls = @ \cup {txid}]

RECURSIVE attachVertex(_, _, _)
RECURSIVE attachEndorsementsFrom(_, _, _, _, _)
RECURSIVE attachInputsFrom(_, _, _, _, _)

\* variant: a virtual producer is waited for without being pulled
attachOutput_NoPull(w, wOut, parasiticChainHorizon) ==
    With(attachRooted(w, wOut), LAMBDA r :
    LET status == GetTxStatus(r.w, wOut[1])
        isSeq == IsSequencerMilestone(wOut[1])
    IN  IF ~r.ok THEN [w |-> r.w, ok |-> FALSE]
        ELSE IF r.isRooted THEN [w |-> r.w, ok |-> TRUE]
        ELSE IF Before(Timestamp(wOut[1]), parasiticChainHorizon)
        THEN [w |-> setReason(r.w, Reason("parasitic", wOut)), ok |-> FALSE]
        ELSE IF r.w.vx[wOut[1]].payload = "vertex" /\ (~isSeq \/ status = Good)
        THEN attachVertex(r.w, wOut[1],
                 IF isSeq THEN NilLogicalTime ELSE parasiticChainHorizon)
        ELSE [w |-> pokeMe(r.w, wOut[1]), ok |-> TRUE])

\* attacher.attachOutput
attachOutput(w, wOut, parasiticChainHorizon) ==
    With(attachRooted(w, wOut), LAMBDA r :
    LET status == GetTxStatus(r.w, wOut[1])
        isSeq == IsSequencerMilestone(wOut[1])
    IN  IF ~r.ok THEN [w |-> r.w, ok |-> FALSE]
        ELSE IF r.isRooted THEN [w |-> r.w, ok |-> TRUE]
        ELSE IF Before(Timestamp(wOut[1]), parasiticChainHorizon)
        THEN [w |-> setReason(r.w, Reason("parasitic", wOut)), ok |-> FALSE]
        ELSE CASE r.w.vx[wOut[1]].payload = "vertex" ->
                    IF ~isSeq \/ status = Good
                    THEN attachVertex(r.w, wOut[1],
                             IF isSeq THEN NilLogicalTime ELSE parasiticChainHorizon)
                    ELSE [w |-> pokeMe(r.w, wOut[1]), ok |-> TRUE]
               [] r.w.vx[wOut[1]].payload = "virtual" ->
                    [w |-> pokeMe(Pull(r.w, wOut[1]), wOut[1]), ok |-> TRUE]
               [] OTHER -> [w |-> r.w, ok |-> TRUE])

\* variant: no horizon is derived from the input, the nil horizon is handed on
attachInput_NoHorizon(w, vid, inputIdx, parasiticChainHorizon) ==
    With(attachInputID(w, vid, inputIdx), LAMBDA r1 :
    LET input == r1.w.vx[vid].Inputs[inputIdx + 1]
    IN  IF ~r1.ok THEN [w |-> r1.w, ok |-> FALSE, success |-> FALSE]
        ELSE With(attachOutput(r1.w, <<input, MustInputAt(vid, inputIdx)[2]>>,
                               parasiticChainHorizon),
                  LAMBDA r2 :
             IF ~r2.ok THEN [w |-> r2.w, ok |-> FALSE, success |-> FALSE]
             ELSE [w |-> r2.w, ok |-> TRUE,
                   success |-> input \in r2.w.a.validPastVertices \/ isRooted(r2.w, input)]))

\* attacher.attachInput
attachInput(w, vid, inputIdx, parasiticChainHorizon) ==
    With(attachInputID(w, vid, inputIdx), LAMBDA r1 :
    LET input == r1.w.vx[vid].Inputs[inputIdx + 1]
        horizon == IF parasiticChainHorizon = NilLogicalTime
                   THEN <<SlotMinus(Slot(input), maxToleratedParasiticChainSlots), 0>>
                   ELSE parasiticChainHorizon
    IN  IF ~r1.ok THEN [w |-> r1.w, ok |-> FALSE, success |-> FALSE]
        ELSE With(attachOutput(r1.w, <<input, MustInputAt(vid, inputIdx)[2]>>, horizon),
                  LAMBDA r2 :
             IF ~r2.ok THEN [w |-> r2.w, ok |-> FALSE, success |-> FALSE]
             ELSE [w |-> r2.w, ok |-> TRUE,
                   success |-> input \in r2.w.a.validPastVertices \/ isRooted(r2.w, input)]))

\* the loop of attacher.attachInputsOfTheVertex, from input i on
attachInputsFrom(w, vid, i, parasiticChainHorizon, allInputsValidated) ==
    IF i >= NumInputs(vid)
    THEN [w |-> IF allInputsValidated THEN SetFlagUp(w, vid, FlagAllInputsSolid) ELSE w,
          ok |-> TRUE]
    ELSE With(attachInput(w, vid, i, parasiticChainHorizon), LAMBDA r :
             IF ~r.ok THEN [w |-> r.w, ok |-> FALSE]
             ELSE attachInputsFrom(r.w, vid, i + 1, parasiticChainHorizon,
                                   allInputsValidated /\ r.success))

\* attacher.attachInputsOfTheVertex
attachInputsOfTheVertex(w, vid, parasiticChainHorizon) ==
    attachInputsFrom(w, vid, 0, parasiticChainHorizon, TRUE)

\* the loop of attacher.attachEndorsements, from endorsement i on
attachEndorsementsFrom(w0, vid, i, parasiticChainHorizon, allGood) ==
    With(w0, LAMBDA w :
    IF i >= NumEndorsements(vid)
    THEN [w |-> IF allGood THEN SetFlagUp(w, vid, FlagEndorsementsSolid) ELSE w, ok |-> TRUE]
    ELSE
      LET known == w.vx[vid].Endorsements[i + 1]
          vidEndorsed == EndorsementAt(vid, i)
      IN
      With(IF known = Nil
           THEN [AttachTxID(w, vidEndorsed, TRUE) EXCEPT
                     !.vx[vid].Endorsements[i + 1] = vidEndorsed]
           ELSE w, LAMBDA w1 :
      LET baselineBranch == BaselineBranch(w1, vidEndorsed)
          endorsedStatus == GetTxStatus(w1, vidEndorsed)
      IN  IF baselineBranch # Nil /\ ~branchesCompatible(w1.a.baselineBranch, baselineBranch)
          THEN [w |-> setReason(w1, Reason("incompatible", <<baselineBranch, 0>>)), ok |-> FALSE]
          ELSE IF endorsedStatus = Bad
          THEN [w |-> setReason(w1, GetReason(w1, vidEndorsed)), ok |-> FALSE]
          ELSE IF vidEndorsed \in w1.a.validPastVertices
          THEN attachEndorsementsFrom(w1, vid, i + 1, parasiticChainHorizon, allGood)
          ELSE IF endorsedStatus = Good
          THEN With(IF ~IsBranchTransaction(vidEndorsed) /\ w1.vx[vidEndorsed].payload = "vertex"
                    THEN attachVertex(w1, vidEndorsed, parasiticChainHorizon)
                    ELSE [w |-> w1, ok |-> TRUE], LAMBDA r :
                   IF ~r.ok THEN r
                   ELSE attachEndorsementsFrom(r.w, vid, i + 1, parasiticChainHorizon, allGood))
          ELSE attachEndorsementsFrom(pokeMe(w1, vidEndorsed), vid, i + 1,
                                      parasiticChainHorizon, FALSE)))

\* attacher.attachEndorsements
attachEndorsements(w, vid, parasiticChainHorizon) ==
    attachEndorsementsFrom(w, vid, 0, parasiticChainHorizon, TRUE)

\* Vertex.ValidateConstraints: the outcome of the constraint evaluator on the transaction
ValidateConstraints(vid) == Tx(vid).valid

\* attacher.attachVertex, on the full vertex of vid
attachVertex(w0, vid, parasiticChainHorizon) ==
    With(w0, LAMBDA w :
    IF GetTxStatus(w, vid) = Bad
    THEN [w |-> setReason(w, GetReason(w, vid)), ok |-> FALSE]
    ELSE IF vid \in w.visited THEN [w |-> w, ok |-> TRUE]
    ELSE IF vid \in w.a.validPastVertices
    THEN [w |-> [w EXCEPT !.visited = @ \cup {vid}], ok |-> TRUE]
    ELSE
      With(pastConeVertexVisited([w EXCEPT !.visited = @ \cup {vid}], vid, FALSE), LAMBDA w1 :
      With(IF ~FlagsUp(w1, vid, {FlagEndorsementsSolid})
           THEN attachEndorsements(w1, vid, parasiticChainHorizon)
           ELSE [w |-> w1, ok |-> TRUE], LAMBDA r2 :
      IF ~r2.ok THEN r2
      ELSE
      With(attachInputsOfTheVertex(r2.w, vid, parasiticChainHorizon), LAMBDA r3 :
      IF ~r3.ok THEN r3
      ELSE IF FlagsUp(r3.w, vid, {FlagAllInputsSolid}) /\ ~ValidateConstraints(vid)
      THEN [w |-> SetTxStatusBad(setReason(r3.w, Reason("constraints", <<vid, 0>>)),
                                 vid, Reason("constraints", <<vid, 0>>)),
            ok |-> FALSE]
      ELSE
      With(IF FlagsUp(r3.w, vid, {FlagAllInputsSolid}) /\ ~IsSequencerMilestone(vid)
           THEN SetFlagUp(r3.w, vid, FlagTxBytesPersisted)
           ELSE r3.w, LAMBDA w4 :
      [w |-> IF FlagsUp(w4, vid, FlagsSequencerVertexCompleted)
             THEN pastConeVertexVisited(w4, vid, TRUE)
             ELSE w4,
       ok |-> TRUE])))))

\* ------------------------------------------------------ milestone attacher
\* attacher.solidifyStemOfTheVertex
solidifyStemOfTheVertex(w0, vid) ==
    With(w0, LAMBDA w :
    LET stemInputIdx == Tx(vid).stemIdx
        stemInputOid == MustInputAt(vid, stemInputIdx)
    IN
    With(IF w.vx[vid].Inputs[stemInputIdx + 1] = Nil
         THEN [AttachTxID(w, stemInputOid[1], FALSE) EXCEPT
                   !.vx[vid].Inputs[stemInputIdx + 1] = stemInputOid[1]]
         ELSE w, LAMBDA w1 :
    LET stem == w1.vx[vid].Inputs[stemInputIdx + 1]
    IN  CASE GetTxStatus(w1, stem) = Good ->
                [w |-> SetFlagUp([w1 EXCEPT !.vx[vid].BaselineBranch = BaselineBranch(w1, stem)],
                                 vid, FlagBaselineSolid),
                 ok |-> TRUE]
          [] GetTxStatus(w1, stem) = Bad ->
                [w |-> setReason(w1, GetReason(w1, stem)), ok |-> FALSE]
          [] OTHER -> [w |-> pokeMe(w1, stem), ok |-> TRUE]))

\* attacher.solidifySequencerBaseline
solidifySequencerBaseline(w0, vid) ==
    With(w0, LAMBDA w :
    LET predIdx == Tx(vid).predIdx
        predOid == MustInputAt(vid, predIdx)
        followTheEndorsement ==
            Slot(predOid[1]) # Slot(vid) \/ ~IsSequencerMilestone(predOid[1])
    IN
    With(IF followTheEndorsement
         THEN IF w.vx[vid].Endorsements[1] = Nil
              THEN [AttachTxID(w, EndorsementAt(vid, 0), TRUE) EXCEPT
                        !.vx[vid].Endorsements[1] = EndorsementAt(vid, 0)]
              ELSE w
         ELSE IF w.vx[vid].Inputs[predIdx + 1] = Nil
              THEN [AttachTxID(w, predOid[1], TRUE) EXCEPT
                        !.vx[vid].Inputs[predIdx + 1] = predOid[1]]
              ELSE w, LAMBDA w1 :
    LET inputTx == IF followTheEndorsement
                   THEN w1.vx[vid].Endorsements[1]
                   ELSE w1.vx[vid].Inputs[predIdx + 1]
    IN  CASE GetTxStatus(w1, inputTx) = Good ->
                [w |-> SetFlagUp([w1 EXCEPT !.vx[vid].BaselineBranch = BaselineBranch(w1, inputTx)],
                                 vid, FlagBaselineSolid),
                 ok |-> TRUE]
          [] GetTxStatus(w1, inputTx) = Bad ->
                [w |-> setReason(w1, GetReason(w1, inputTx)), ok |-> FALSE]
          [] OTHER -> [w |-> pokeMe(w1, inputTx), ok |-> TRUE]))

\* attacher.solidifyBaseline, on the vertex of the milestone
solidifyBaselineVertex(w, vid) ==
    IF IsBranchTransaction(vid)
    THEN solidifyStemOfTheVertex(w, vid)
    ELSE solidifySequencerBaseline(w, vid)

\* attacher.setBaselineBranch
setBaselineBranch(w, vid) == [w EXCEPT !.a.baselineBranch = vid]

\* one pass of the function milestoneAttacher.solidifyBaseline repeats
solidifyBaseline(w, vid) ==
    With(solidifyBaselineVertex(w, vid), LAMBDA r :
    LET success == r.ok /\ r.w.vx[vid].BaselineBranch # Nil
    IN  [w |-> IF success THEN setBaselineBranch(r.w, r.w.vx[vid].BaselineBranch) ELSE r.w,
         status |-> IF ~r.ok THEN Bad ELSE IF success THEN Good ELSE Undefined])

\* one pass of the function milestoneAttacher.solidifyPastCone repeats
solidifyPastCone(w, vid) ==
    With(attachVertex([w EXCEPT !.visited = {}], vid, NilLogicalTime), LAMBDA r :
    LET finalSuccess == r.ok /\ FlagsUp(r.w, vid, FlagsSequencerVertexCompleted)
    IN  [w |-> r.w,
         status |-> IF ~r.ok THEN Bad ELSE IF finalSuccess THEN Good ELSE Undefined])

\* the committed state of a new branch: the baseline state with the
\* transactions of the past cone applied
CommitBranchState(w) ==
    LET base == baselineStateReader(w)
        cone == w.a.validPastVertices
        consumed == UNION {{MustInputAt(t, i) : i \in 0..(NumInputs(t) - 1)} : t \in cone}
        produced == UNION {{<<t, i>> : i \in 0..(NumProducedOutputs(t) - 1)} : t \in cone}
    IN  [utxo |-> (base.utxo \cup produced) \ consumed, known |-> base.known \cup cone]

\* DAG.AddBranchNoLock
AddBranchNoLock(w, branchVID, stateReader) ==
    IF branchVID \in DOMAIN w.branches
    THEN w
    ELSE [w EXCEPT !.branches = (branchVID :> stateReader) @@ @]

\* attacher.wrapUpAttacher: a branch commits its state and is registered in the DAG
wrapUpAttacher(w0, vid) ==
    With(w0, LAMBDA w :
    IF IsBranchTransaction(vid)
    THEN AddBranchNoLock(w, vid, CommitBranchState(w))
    ELSE w)

\* the end of runMilestoneAttacher after run() returned an error; close()
\* takes the poke callback away, the pokes asked for reach nobody any more
finishBad(w0, vid) ==
    With(w0, LAMBDA w :
    [SetTxStatusBad(w, vid, w.a.reason) EXCEPT !.a.phase = "done", !.a.askedForPoke = {}])

\* variant: the branch is neither committed nor registered before it is Good
finishGood_NoWrapUp(w, vid) ==
    With(w, LAMBDA w1 :
    LET w2 == IF IsBranchTransaction(vid) THEN ConvertVertexToVirtualTx(w1, vid) ELSE w1
        w3 == SetTxStatusGood(w2, vid)
    IN  [w3 EXCEPT !.a.phase = "done", !.a.askedForPoke = {},
                   !.vx[vid].vidFlags = @ \cup {FlagVertexTxAttachmentFinished}])

\* the end of milestoneAttacher.run and of runMilestoneAttacher after success
finishGood(w, vid) ==
    With(wrapUpAttacher(w, vid), LAMBDA w1 :
    LET w2 == IF IsBranchTransaction(vid) THEN ConvertVertexToVirtualTx(w1, vid) ELSE w1
        w3 == SetTxStatusGood(w2, vid)
    IN  [w3 EXCEPT !.a.phase = "done", !.a.askedForPoke = {},
                   !.vx[vid].vidFlags = @ \cup {FlagVertexTxAttachmentFinished}])

\* milestoneAttacher.run from the past cone on, until it suspends or returns
runPastCone(w, vid) ==
    With(solidifyPastCone(w, vid), LAMBDA r :
        CASE r.status = Good -> finishGood(r.w, vid)
          [] r.status = Bad -> finishBad(r.w, vid)
          [] OTHER -> [r.w EXCEPT !.a.phase = "pastcone"])

\* milestoneAttacher.run from the baseline on, until it suspends or returns
runBaseline(w, vid) ==
    With(solidifyBaseline(w, vid), LAMBDA r :
        CASE r.status = Good -> runPastCone(r.w, vid)
          [] r.status = Bad -> finishBad(r.w, vid)
          [] OTHER -> [r.w EXCEPT !.a.phase = "baseline"])

\* newMilestoneAttacher: the milestone itself starts as undefined in its past cone
newMilestoneAttacher(vid) ==
    [newPastConeAttacher EXCEPT !.undefinedPastVertices = {vid}]

\* runMilestoneAttacher: the attacher runs from where it is until it suspends in
\* lazyRepeat or returns
runMilestoneAttacher(w0, vid) ==
    With(w0, LAMBDA w :
    IF w.a.phase = "pastcone" THEN runPastCone(w, vid) ELSE runBaseline(w, vid))

\* milestoneAttacher.lazyRepeat, the case of the cancelled context
lazyRepeatInterrupted(w, vid) ==
    finishBad(setReason(w, Reason("interrupted", <<vid, 0>>)), vid)

\* ------------------------------------------------------------------ ingress
\* Environment.StopPulling
StopPulling(w, txid) == [w EXCEPT !.pulls = @ \ {txid}]

\* attacher.InvalidateTxID: the transaction is dropped, the DAG gets no entry for it
InvalidateTxID(w, txid, err) == w

\* attacher.AttachTransaction: the VID of the transaction becomes a full vertex,
\* once; a sequencer milestone gets its milestone attacher
AttachTransaction(w, txid) ==
    With(AttachTxID(w, txid, FALSE), LAMBDA w1 :
        IF w1.vx[txid].payload # "virtual"
           \/ FlagVertexTxAttachmentStarted \in w1.vx[txid].vidFlags
        THEN w1
        ELSE LET w2 == [ConvertVirtualTxToVertex(w1, txid) EXCEPT
                            !.vx[txid].vidFlags = @ \cup {FlagVertexTxAttachmentStarted}]
             IN  IF IsSequencerMilestone(txid)
                 THEN [w2 EXCEPT !.a = newMilestoneAttacher(txid)]
                 ELSE w2)

\* Transaction.Validate(MainTxValidationOptions): the outcome of the pre-validation
Validate(txid) == Tx(txid).prevalid

\* Workflow.TxBytesIn on the bytes of transaction txid: exceedsUpperBound is the
\* outcome of the check of the timestamp against the local clock, enforceTimeBounds
\* comes from the source of the bytes (API or peer), inTheFuture is whether the
\* timestamp is ahead of the local clock
\* variant: a transaction that fails at the ingress is attached all the same
TxBytesInResult_AttachInvalid(w, txid, exceedsUpperBound, enforceTimeBounds, inTheFuture) ==
    With(StopPulling(w, txid), LAMBDA w1 :
        IF (exceedsUpperBound /\ enforceTimeBounds) \/ ~Validate(txid)
        THEN [w |-> AttachTransaction(w1, txid), err |-> TRUE, delay |-> FALSE]
        ELSE IF inTheFuture
        THEN [w |-> w1, err |-> FALSE, delay |-> TRUE]
        ELSE [w |-> AttachTransaction(w1, txid), err |-> FALSE, delay |-> FALSE])

TxBytesInResult(w, txid, exceedsUpperBound, enforceTimeBounds, inTheFuture) ==
    With(StopPulling(w, txid), LAMBDA w1 :
        IF exceedsUpperBound /\ enforceTimeBounds
        THEN [w |-> InvalidateTxID(w1, txid, "upper timestamp bound exceeded"),
              err |-> TRUE, delay |-> FALSE]
        ELSE IF ~Validate(txid)
        THEN [w |-> InvalidateTxID(w1, txid, "error while pre-validating transaction"),
              err |-> TRUE, delay |-> FALSE]
        ELSE IF inTheFuture
        THEN [w |-> w1, err |-> FALSE, delay |-> TRUE]
        ELSE [w |-> AttachTransaction(w1, txid), err |-> FALSE, delay |-> FALSE])

\* ----------------------------------------------------------- the state machine
GenesisState ==
    [utxo |-> {<<G, i>> : i \in 0..(Len(TxOf("branches", G).amounts) - 1)}, known |-> {G}]

GenesisVID ==
    [WrapTxID(G) EXCEPT !.status = Good,
                        !.vidFlags = {FlagVertexTxAttachmentStarted, FlagVertexTxAttachmentFinished}]

World(m) ==
    [vx |-> vx, a |-> att[m], pulls |-> pulls, visited |-> {}, created |-> vidsCreated,
     branches |-> branches]

InitAttacher ==
    /\ scenario \in Scenarios
    /\ vx = [t \in AllTxIds |-> IF t = G THEN GenesisVID ELSE NoVID]
    /\ branches = (G :> GenesisState)
    /\ att = [t \in AllTxIds |-> NoAttacher]
    /\ pulls = {}
    /\ delayed = {}
    /\ vidsCreated = [t \in AllTxIds |-> IF t = G THEN 1 ELSE 0]
    /\ ctxDone = FALSE
    /\ ingressReturned = [b \in AllTxIds \cup {Nil} |-> "none"]

\* the world after an operation becomes the state; m is the attacher that ran
Commit(w, m) ==
    /\ vx' = w.vx
    /\ att' = [att EXCEPT ![m] = w.a]
    /\ pulls' = w.pulls
    /\ vidsCreated' = w.created
    /\ branches' = w.branches

\* bytes of a transaction of the scenario arrive at the ingress
TxBytesIn(txid, exceedsUpperBound, enforceTimeBounds, inTheFuture) ==
    /\ txid \in TxIds \ {G}
    /\ exceedsUpperBound => (inTheFuture /\ txid \in MayExceedUpperBound)
    /\ inTheFuture => txid \in MayBeInTheFuture
    /\ \E r \in {TxBytesInResult(World(txid), txid, exceedsUpperBound, enforceTimeBounds,
                                  inTheFuture)} :
           /\ Commit(r.w, txid)
           /\ delayed' = IF r.delay THEN delayed \cup {txid} ELSE delayed
           /\ ingressReturned' = [ingressReturned EXCEPT
                                     ![txid] = IF r.err THEN "err" ELSE "ok"]
    /\ UNCHANGED <<scenario, ctxDone>>
    /\ UNCHANGED attFrame

\* bytes that transaction.FromBytes cannot parse arrive at the ingress: the
\* error is returned before anything else is done
TxBytesIn_Malformed ==
    /\ scenario = "errors"
    /\ ingressReturned' = [ingressReturned EXCEPT ![Nil] = "err"]
    /\ UNCHANGED <<scenario, vx, branches, att, pulls, delayed, vidsCreated, ctxDone>>
    /\ UNCHANGED attFrame

\* the delay of a transaction of the future is over: it is attached
ReleaseDelayed(txid) ==
    /\ txid \in delayed
    /\ \E w \in {AttachTransaction(World(txid), txid)} : Commit(w, txid)
    /\ delayed' = delayed \ {txid}
    /\ UNCHANGED <<scenario, ctxDone, ingressReturned>>
    /\ UNCHANGED attFrame

\* variant: a suspended attacher is never woken, neither by a poke nor by the timer
AttacherRun_NoWakeUp(m) ==
    /\ att[m].phase = "started"
    /\ \E w \in {runMilestoneAttacher(World(m), m)} : Commit(w, m)
    /\ UNCHANGED <<scenario, delayed, ctxDone, ingressReturned>>
    /\ UNCHANGED attFrame

\* the goroutine of a milestone attacher runs: first start, poke or periodic check
AttacherRun(m) ==
    /\ att[m].phase \in {"started", "baseline", "pastcone"}
    /\ \E w \in {runMilestoneAttacher(World(m), m)} : Commit(w, m)
    /\ UNCHANGED <<scenario, delayed, ctxDone, ingressReturned>>
    /\ UNCHANGED attFrame

\* the workflow shuts down: the context of the attachers is cancelled
CancelContext ==
    /\ ~ctxDone
    /\ ctxDone' = TRUE
    /\ UNCHANGED <<scenario, vx, branches, att, pulls, delayed, vidsCreated, ingressReturned>>
    /\ UNCHANGED attFrame

\* variant: the cancelled context reaches an attacher that has returned, too
AttacherInterrupted_AnyPhase(m) ==
    /\ ctxDone
    /\ att[m].phase \in {"baseline", "pastcone", "done"}
    /\ \E w \in {lazyRepeatInterrupted(World(m), m)} : Commit(w, m)
    /\ UNCHANGED <<scenario, delayed, ctxDone, ingressReturned>>
    /\ UNCHANGED attFrame

\* a suspended attacher observes the cancelled context
AttacherInterrupted(m) ==
    /\ ctxDone
    /\ att[m].phase \in {"baseline", "pastcone"}
    /\ \E w \in {lazyRepeatInterrupted(World(m), m)} : Commit(w, m)
    /\ UNCHANGED <<scenario, delayed, ctxDone, ingressReturned>>
    /\ UNCHANGED attFrame

NextAttacher ==
    \/ \E txid \in AllTxIds, x, e, f \in BOOLEAN : TxBytesIn(txid, x, e, f)
    \/ TxBytesIn_Malformed
    \/ \E txid \in AllTxIds : ReleaseDelayed(txid)
    \/ \E m \in AllTxIds : AttacherRun(m)
    \/ CancelContext
    \/ \E m \in AllTxIds : AttacherInterrupted(m)

\* the attachers do not move: no transaction ever arrives
AttIdle == InitAttacher /\ scenario = "ingress"

Init == InitAttacher /\ IdleExcept("attacher")
Next == NextAttacher
Spec == Init /\ [][Next]_vars

\* ------------------------------------------- the DAG under concurrent callers
\* Each caller runs AttachTxID on a transaction id: under WithGlobalWriteLock it
\* looks the id up with GetVertexNoLock and adds a new VID with AddVertexNoLock
\* when the lookup found none.  Then it reads the id back with GetVertex.
Callers == 1..NCallers
DagTxIds == {BA, MA}
\* no VID object; the VID object a caller creates is named by the caller
NoPtr == 0

InitDag ==
    /\ dagMutex = [writer |-> 0, readers |-> {}]
    /\ dagVertices = [t \in DagTxIds |-> NoPtr]
    /\ dagPc = [c \in Callers |-> "idle"]
    /\ dagTarget = [c \in Callers |-> Nil]
    /\ dagLocal = [c \in Callers |-> NoPtr]
    /\ dagSeen = [c \in Callers |-> NoPtr]
    /\ dagInserted = [t \in DagTxIds |-> 0]
    /\ dagAssertFailed = FALSE

\* a caller enters AttachTxID(txid)
AttachTxID_Call(c, txid) ==
    /\ dagPc[c] = "idle"
    /\ dagPc' = [dagPc EXCEPT ![c] = "lock"]
    /\ dagTarget' = [dagTarget EXCEPT ![c] = txid]
    /\ UNCHANGED <<dagMutex, dagVertices, dagLocal, dagSeen, dagInserted, dagAssertFailed>>
    /\ UNCHANGED dagFrame

\* variant: the function runs without the mutex being taken
WithGlobalWriteLock_NoMutex(c) ==
    /\ dagPc[c] = "lock"
    /\ dagPc' = [dagPc EXCEPT ![c] = "get"]
    /\ UNCHANGED <<dagMutex, dagVertices, dagTarget, dagLocal, dagSeen, dagInserted,
                   dagAssertFailed>>
    /\ UNCHANGED dagFrame

\* DAG.WithGlobalWriteLock, d.mutex.Lock(): waits until no writer and no reader holds it
WithGlobalWriteLock_Lock(c) ==
    /\ dagPc[c] = "lock"
    /\ dagMutex.writer = 0 /\ dagMutex.readers = {}
    /\ dagMutex' = [dagMutex EXCEPT !.writer = c]
    /\ dagPc' = [dagPc EXCEPT ![c] = "get"]
    /\ UNCHANGED <<dagVertices, dagTarget, dagLocal, dagSeen, dagInserted, dagAssertFailed>>
    /\ UNCHANGED dagFrame

\* DAG.GetVertexNoLock inside the locked function; a VID that is found is returned
AttachTxID_GetVertexNoLock(c) ==
    /\ dagPc[c] = "get"
    /\ dagLocal' = [dagLocal EXCEPT ![c] = dagVertices[dagTarget[c]]]
    /\ dagPc' = [dagPc EXCEPT ![c] =
                    IF dagVertices[dagTarget[c]] = NoPtr THEN "add" ELSE "unlock"]
    /\ UNCHANGED <<dagMutex, dagVertices, dagTarget, dagSeen, dagInserted, dagAssertFailed>>
    /\ UNCHANGED dagFrame

\* DAG.AddVertexNoLock with a new VID: asserts that the id is absent, then stores it
AttachTxID_AddVertexNoLock(c) ==
    /\ dagPc[c] = "add"
    /\ IF dagVertices[dagTarget[c]] # NoPtr
       THEN /\ dagAssertFailed' = TRUE
            /\ dagPc' = [dagPc EXCEPT ![c] = "panic"]
            /\ UNCHANGED <<dagVertices, dagLocal, dagInserted>>
       ELSE /\ dagVertices' = [dagVertices EXCEPT ![dagTarget[c]] = c]
            /\ dagInserted' = [dagInserted EXCEPT ![dagTarget[c]] = @ + 1]
            /\ dagLocal' = [dagLocal EXCEPT ![c] = c]
            /\ dagPc' = [dagPc EXCEPT ![c] = "unlock"]
            /\ UNCHANGED dagAssertFailed
    /\ UNCHANGED <<dagMutex, dagTarget, dagSeen>>
    /\ UNCHANGED dagFrame

\* DAG.WithGlobalWriteLock, d.mutex.Unlock(): AttachTxID returns the VID it holds
WithGlobalWriteLock_Unlock(c) ==
    /\ dagPc[c] = "unlock"
    /\ dagMutex' = [dagMutex EXCEPT !.writer = IF @ = c THEN 0 ELSE @]
    /\ dagPc' = [dagPc EXCEPT ![c] = "attached"]
    /\ UNCHANGED <<dagVertices, dagTarget, dagLocal, dagSeen, dagInserted, dagAssertFailed>>
    /\ UNCHANGED dagFrame

\* DAG.GetVertex, d.mutex.RLock()
GetVertex_RLock(c) ==
    /\ dagPc[c] = "attached"
    /\ dagMutex.writer = 0
    /\ dagMutex' = [dagMutex EXCEPT !.readers = @ \cup {c}]
    /\ dagPc' = [dagPc EXCEPT ![c] = "read"]
    /\ UNCHANGED <<dagVertices, dagTarget, dagLocal, dagSeen, dagInserted, dagAssertFailed>>
    /\ UNCHANGED dagFrame

\* DAG.GetVertex, the lookup and the deferred d.mutex.RUnlock()
GetVertex_Return(c) ==
    /\ dagPc[c] = "read"
    /\ dagSeen' = [dagSeen EXCEPT ![c] = dagVertices[dagTarget[c]]]
    /\ dagMutex' = [dagMutex EXCEPT !.readers = @ \ {c}]
    /\ dagPc' = [dagPc EXCEPT ![c] = "done"]
    /\ UNCHANGED <<dagVertices, dagTarget, dagLocal, dagInserted, dagAssertFailed>>
    /\ UNCHANGED dagFrame

NextDag ==
    \/ \E c \in Callers, txid \in DagTxIds : AttachTxID_Call(c, txid)
    \/ \E c \in Callers : WithGlobalWriteLock_Lock(c)
    \/ \E c \in Callers : AttachTxID_GetVertexNoLock(c)
    \/ \E c \in Callers : AttachTxID_AddVertexNoLock(c)
    \/ \E c \in Callers : WithGlobalWriteLock_Unlock(c)
    \/ \E c \in Callers : GetVertex_RLock(c)
    \/ \E c \in Callers : GetVertex_Return(c)

InitDagAlone == InitDag /\ AttIdle /\ IdleExcept("dag")
SpecDag == InitDagAlone /\ [][NextDag]_vars


\* ------------------------------------------------------- the branch registry
\* Branches are registered with a slot and a ledger coverage;
\* HeaviestBranchOfLatestTimeSlot reads the registry in two read-locked sections.
BranchIds == 1..NBranchIds
BranchSlots == {1, 2}
BranchCoverages == {10, 20}

\* the orders in which a range over the map DAG.branches can deliver its keys
RECURSIVE IterationOrders(_)
IterationOrders(S) ==
    IF S = {} THEN {<<>>}
    ELSE UNION {{<<x>> \o rest : rest \in IterationOrders(S \ {x})} : x \in S}

\* variant: the branches of every slot are collected
_branchesForSlot_AnySlot(order, slot) == order

\* DAG._branchesForSlot, the map delivered in the given order
RECURSIVE _branchesForSlot(_, _)
_branchesForSlot(order, slot) ==
    IF order = <<>> THEN <<>>
    ELSE (IF hbBranches[Head(order)].slot = slot THEN <<Head(order)>> ELSE <<>>)
            \o _branchesForSlot(Tail(order), slot)

\* the loop of DAG._latestBranchSlot over the rest of the map, ret so far
RECURSIVE _latestBranchSlotFrom(_, _)
_latestBranchSlotFrom(order, ret) ==
    IF order = <<>> THEN ret
    ELSE _latestBranchSlotFrom(Tail(order),
             IF hbBranches[Head(order)].slot > ret THEN hbBranches[Head(order)].slot ELSE ret)

\* DAG._latestBranchSlot
_latestBranchSlot(order) == _latestBranchSlotFrom(order, 0)

\* vertex.LessByCoverageAndID: by coverage, ties by transaction id
LessByCoverageAndID(b1, b2) ==
    \/ hbBranches[b1].coverage < hbBranches[b2].coverage
    \/ (hbBranches[b1].coverage = hbBranches[b2].coverage /\ b1 < b2)

\* util.Maximum over the rest of a slice, ret so far
RECURSIVE MaximumFrom(_, _)
MaximumFrom(rest, ret) ==
    IF rest = <<>> THEN ret
    ELSE MaximumFrom(Tail(rest), IF LessByCoverageAndID(ret, Head(rest)) THEN Head(rest) ELSE ret)

\* util.Maximum: 0 (nil) for the empty slice
Maximum(slice) == IF slice = <<>> THEN 0 ELSE MaximumFrom(Tail(slice), Head(slice))

\* the branch of the maximum slot of registry reg that is above every other
\* branch of that slot by coverage and id
HeaviestOfLatestSlot(reg) ==
    CHOOSE b \in DOMAIN reg :
        /\ \A o \in DOMAIN reg : reg[o].slot <= reg[b].slot
        /\ \A o \in DOMAIN reg \ {b} :
              reg[o].slot = reg[b].slot =>
                  \/ reg[b].coverage > reg[o].coverage
                  \/ (reg[b].coverage = reg[o].coverage /\ b > o)

InitHb ==
    /\ hbBranches \in {(b :> [slot |-> 1, coverage |-> c]) : b \in BranchIds, c \in BranchCoverages}
    /\ hbPc = "idle"
    /\ hbSlot = 0
    /\ hbChanged = FALSE
    /\ hbResult = 0
    /\ hbMoments = {}

\* DAG.AddBranchNoLock under the global write lock: a finished branch attacher
\* registers its branch
RegisterBranch(b, slot, coverage) ==
    /\ b \notin DOMAIN hbBranches
    /\ hbBranches' = (b :> [slot |-> slot, coverage |-> coverage]) @@ hbBranches
    /\ hbChanged' = (hbChanged \/ hbPc \in {"gotSlot", "returned"})
    /\ hbMoments' = IF hbPc = "gotSlot"
                    THEN hbMoments \cup {HeaviestOfLatestSlot(hbBranches')}
                    ELSE hbMoments
    /\ UNCHANGED <<hbPc, hbSlot, hbResult>>
    /\ UNCHANGED hbFrame

\* HeaviestBranchOfLatestTimeSlot, first read-locked section: d.LatestBranchSlot()
HeaviestBranch_LatestBranchSlot ==
    /\ hbPc \in {"idle", "returned"}
    /\ \E order \in IterationOrders(DOMAIN hbBranches) :
          hbSlot' = _latestBranchSlot(order)
    /\ hbPc' = "gotSlot"
    /\ hbChanged' = FALSE
    /\ hbResult' = 0
    /\ hbMoments' = {HeaviestOfLatestSlot(hbBranches)}
    /\ UNCHANGED hbBranches
    /\ UNCHANGED hbFrame

\* HeaviestBranchOfLatestTimeSlot, second read-locked section:
\* util.Maximum(d._branchesForSlot(slot), vertex.LessByCoverageAndID)
HeaviestBranch_Maximum ==
    /\ hbPc = "gotSlot"
    /\ \E order \in IterationOrders(DOMAIN hbBranches) :
          hbResult' = Maximum(_branchesForSlot(order, hbSlot))
    /\ hbPc' = "returned"
    /\ UNCHANGED <<hbBranches, hbSlot, hbChanged, hbMoments>>
    /\ UNCHANGED hbFrame

NextHb ==
    \/ \E b \in BranchIds, slot \in BranchSlots, coverage \in BranchCoverages :
          RegisterBranch(b, slot, coverage)
    \/ HeaviestBranch_LatestBranchSlot
    \/ HeaviestBranch_Maximum

InitHbAlone == InitHb /\ AttIdle /\ IdleExcept("hb")
SpecHb == InitHbAlone /\ [][NextHb]_vars


\* ------------------------------------------------- gossip of incoming transactions
\* A transaction arrives from a peer or from the API, passes the primary input
\* consumer and reaches the outbound consumer, which forwards it to the peers.
Peers == {<<"peer", i>> : i \in 1..NPeers}
NoPeer == <<"peer", 0>>
GsTxIds == {T(1), MA}

TransactionSourceTypeAPI == "API"
TransactionSourceTypeSequencer == "sequencer"
TransactionSourceTypePeer == "peer"

\* newPrimaryInputConsumerData
newPrimaryInputConsumerData(tx) ==
    [Tx |-> tx, SourceType |-> TransactionSourceTypeAPI, ReceivedFrom |-> NoPeer,
     Pulled |-> FALSE, Gossiped |-> FALSE]

\* the option WithTransactionSourceType
WithTransactionSourceType(data, src) == [data EXCEPT !.SourceType = src]

\* the option WithTransactionSourcePeer
WithTransactionSourcePeer(data, from) ==
    [data EXCEPT !.SourceType = TransactionSourceTypePeer, !.ReceivedFrom = from]

\* PullTxConsumer.isRequested
isRequested(txid) == txid \in gsPullList

\* Workflow.TransactionInReturnTx after the options are applied to inData
TransactionInReturnTx(inData) ==
    /\ gsArrivals < MaxArrivals
    /\ gsArrivals' = gsArrivals + 1
    /\ gsPrimary' = Append(gsPrimary, [inData EXCEPT !.Pulled = isRequested(inData.Tx),
                                                     !.Gossiped = isRequested(inData.Tx)])
    /\ UNCHANGED <<gsPullList, gsOutbound, gsLog>>
    /\ UNCHANGED gsFrame

\* the handler the workflow registers with Peers.OnReceiveTxBytes
OnReceiveTxBytes(from, tx) ==
    TransactionInReturnTx(WithTransactionSourcePeer(newPrimaryInputConsumerData(tx), from))

\* a transaction submitted through the API or issued by the own sequencer
TransactionIn(tx, src) ==
    TransactionInReturnTx(WithTransactionSourceType(newPrimaryInputConsumerData(tx), src))

\* the node asks its peers for a transaction
SendPullRequest(txid) ==
    /\ txid \notin gsPullList
    /\ gsPullList' = gsPullList \cup {txid}
    /\ UNCHANGED <<gsPrimary, gsOutbound, gsLog, gsArrivals>>
    /\ UNCHANGED gsFrame

\* the pipeline from the primary input consumer to the outbound consumer: a
\* transaction that is marked as gossiped (it answers a pull) is not forwarded
PrimaryConsumer_consume ==
    /\ gsPrimary # <<>>
    /\ gsPrimary' = Tail(gsPrimary)
    /\ gsPullList' = gsPullList \ {Head(gsPrimary).Tx}
    /\ gsOutbound' = IF Head(gsPrimary).Gossiped
                     THEN gsOutbound
                     ELSE Append(gsOutbound, Head(gsPrimary))
    /\ UNCHANGED <<gsLog, gsArrivals>>
    /\ UNCHANGED gsFrame

\* Workflow.TxBytesIn, the step that hands the transaction to the gossip:
\* a response to a pull is not gossiped
TxBytesIn_GossipTransaction(tx, src, receivedFromPeer, isResponseToPull) ==
    /\ gsArrivals < MaxArrivals
    /\ ~isResponseToPull \/ src = TransactionSourceTypePeer
    /\ (src = TransactionSourceTypePeer) <=> (receivedFromPeer # NoPeer)
    /\ gsArrivals' = gsArrivals + 1
    /\ gsOutbound' = IF isResponseToPull
                     THEN gsOutbound
                     ELSE Append(gsOutbound, [Tx |-> tx, SourceType |-> src,
                                              ReceivedFrom |-> receivedFromPeer,
                                              Pulled |-> FALSE, Gossiped |-> FALSE])
    /\ UNCHANGED <<gsPullList, gsPrimary, gsLog>>
    /\ UNCHANGED gsFrame

\* Peers.GossipTxBytesToPeers: the bytes go to every peer that is not excepted
GossipTxBytesToPeers(except) == Peers \ except

\* variant: the source of the transaction is not excepted
consume_ToAll(inp) == GossipTxBytesToPeers({})

\* TxOutboundConsumer.consume: the peers the transaction is sent to
consume(inp) ==
    IF inp.SourceType = TransactionSourceTypePeer
    THEN GossipTxBytesToPeers({inp.ReceivedFrom})
    ELSE GossipTxBytesToPeers({})

\* the outbound consumer takes the next transaction of its queue
TxOutboundConsumer_consume ==
    /\ gsOutbound # <<>>
    /\ gsOutbound' = Tail(gsOutbound)
    /\ gsLog' = Append(gsLog, [inp |-> Head(gsOutbound), to |-> consume(Head(gsOutbound))])
    /\ UNCHANGED <<gsPullList, gsPrimary, gsArrivals>>
    /\ UNCHANGED gsFrame

InitGs ==
    /\ gsPullList = {}
    /\ gsPrimary = <<>>
    /\ gsOutbound = <<>>
    /\ gsLog = <<>>
    /\ gsArrivals = 0

NextGs ==
    \/ \E from \in Peers, tx \in GsTxIds : OnReceiveTxBytes(from, tx)
    \/ \E tx \in GsTxIds, src \in {TransactionSourceTypeAPI, TransactionSourceTypeSequencer} :
          TransactionIn(tx, src)
    \/ \E txid \in GsTxIds : SendPullRequest(txid)
    \/ PrimaryConsumer_consume
    \/ \E tx \in GsTxIds, src \in {TransactionSourceTypeAPI, TransactionSourceTypePeer},
          p \in Peers \cup {NoPeer}, r \in BOOLEAN : TxBytesIn_GossipTransaction(tx, src, p, r)
    \/ TxOutboundConsumer_consume

InitGsAlone == InitGs /\ AttIdle /\ IdleExcept("gossip")
SpecGs == InitGsAlone /\ [][NextGs]_vars


\* ------------------------------------------- validation options of a transaction
\* math.MaxUint64 at the width of the model
MaxAmount == 2 ^ AmountBits - 1
AmountValues == {0, 1, 2, MaxAmount - 1, MaxAmount}
TvSlots == 1..2

\* an endorsed transaction id carries its sequencer flag and its slot
TvEndorsedIds == [seq : BOOLEAN, slot : TvSlots]
\* a produced output: its amount, and whether OutputFromBytesMain parses it
TvOutputs == [amount : AmountValues, parses : BOOLEAN]
SeqsUpTo(S, n) == UNION {[1..k -> S] : k \in 0..n}

\* variant: the slot of the endorsed transaction is not compared
RECURSIVE ForEachEndorsement_NoSlot(_, _)
ForEachEndorsement_NoSlot(tx, i) ==
    IF i > Len(tx.endorsements) THEN "nil"
    ELSE IF ~tx.endorsements[i].seq THEN "endorsement of non-sequencer transaction"
    ELSE ForEachEndorsement_NoSlot(tx, i + 1)

\* the loop of CheckEndorsements over the endorsements, from the i-th on; it
\* stops at the first error
RECURSIVE ForEachEndorsement(_, _)
ForEachEndorsement(tx, i) ==
    IF i > Len(tx.endorsements) THEN "nil"
    ELSE IF ~tx.endorsements[i].seq THEN "endorsement of non-sequencer transaction"
    ELSE IF tx.endorsements[i].slot # tx.slot THEN "can't endorse tx from another slot"
    ELSE ForEachEndorsement(tx, i + 1)

\* transaction.CheckEndorsements: the error it returns, "nil" for none
CheckEndorsements(tx) ==
    IF ~tx.seq /\ Len(tx.endorsements) > 0
    THEN "non-sequencer tx can't contain endorsements"
    ELSE ForEachEndorsement(tx, 1)

\* variant: the total is added up without the overflow check and wraps
RECURSIVE scanOutputsFrom_Wrapping(_, _, _)
scanOutputsFrom_Wrapping(tx, i, totalAmount) ==
    IF i > Len(tx.outputs)
    THEN IF tx.totalAmount # totalAmount THEN "wrong total produced amount value" ELSE "nil"
    ELSE IF ~tx.outputs[i].parses THEN "scanning output"
    ELSE scanOutputsFrom_Wrapping(tx, i + 1,
             (totalAmount + tx.outputs[i].amount) % (MaxAmount + 1))

\* the loop of ScanOutputs from output i on, totalAmount being the sum so
\* far, and the comparison with the total amount field after it
RECURSIVE scanOutputsFrom(_, _, _)
scanOutputsFrom(tx, i, totalAmount) ==
    IF i > Len(tx.outputs)
    THEN IF tx.totalAmount # totalAmount THEN "wrong total produced amount value" ELSE "nil"
    ELSE IF ~tx.outputs[i].parses THEN "scanning output"
    ELSE IF tx.outputs[i].amount > MaxAmount - totalAmount THEN "arithmetic overflow"
    ELSE scanOutputsFrom(tx, i + 1, (totalAmount + tx.outputs[i].amount) % (MaxAmount + 1))

\* transaction.ScanOutputs: the error it returns, "nil" for none
ScanOutputs(tx) == scanOutputsFrom(tx, 1, 0)

\* the transactions put under validation: any flags, slot and endorsements
\* with one output, or any outputs and total amount field without endorsements
TvTransactions ==
    [seq : BOOLEAN, slot : TvSlots, endorsements : SeqsUpTo(TvEndorsedIds, MaxEndorsements),
     outputs : {<<[amount |-> 1, parses |-> TRUE]>>}, totalAmount : {1}]
    \cup
    [seq : {FALSE}, slot : {1}, endorsements : {<<>>},
     outputs : SeqsUpTo(TvOutputs, MaxOutputs), totalAmount : 0..MaxAmount]

InitTv ==
    /\ tvTx \in TvTransactions
    /\ tvEndorsementsErr = "unchecked"
    /\ tvOutputsErr = "unchecked"

RunCheckEndorsements ==
    /\ tvEndorsementsErr = "unchecked"
    /\ tvEndorsementsErr' = CheckEndorsements(tvTx)
    /\ UNCHANGED <<tvTx, tvOutputsErr>>
    /\ UNCHANGED tvFrame

RunScanOutputs ==
    /\ tvOutputsErr = "unchecked"
    /\ tvOutputsErr' = ScanOutputs(tvTx)
    /\ UNCHANGED <<tvTx, tvEndorsementsErr>>
    /\ UNCHANGED tvFrame

NextTv ==
    \/ RunCheckEndorsements
    \/ RunScanOutputs

InitTvAlone == InitTv /\ AttIdle /\ IdleExcept("validation")
SpecTv == InitTvAlone /\ [][NextTv]_vars

\* ------------------------------------------------------- the payload of a VID
\* A VID here is a record: payload is the type of vid._genericWrapper, numOutputs
\* the outputs its transaction produces, outputs the indices a virtual
\* transaction holds, BaselineBranch the field of the full vertex.
ErrDeletedVertexAccessed == "deleted vertex should not be accessed"
AssertionFailed == "assertion failed"
NoPanic == "none"
VpIndices == 0..2

\* returned values are recorded as strings
Bool(b) == IF b THEN "true" ELSE "false"

\* what an operation leaves behind: the VID, the returned value, the panic
Returned(v, ret) == [v |-> v, ret |-> ret, panic |-> NoPanic]
Panicked(v, err) == [v |-> v, ret |-> "none", panic |-> err]

\* WrappedTx.PanicAccessDeleted
PanicAccessDeleted(v) == Panicked(v, ErrDeletedVertexAccessed)

\* WrappedTx.MarkDeleted
MarkDeleted(v) ==
    CASE v.payload = "_vertex" -> Returned([v EXCEPT !.payload = "_deletedTx"], "none")
      [] v.payload = "_virtualTx" -> Returned([v EXCEPT !.payload = "_deletedTx"], "none")
      [] v.payload = "_deletedTx" -> PanicAccessDeleted(v)

\* variant: a deleted payload is turned into a virtual transaction again
ConvertToVirtualTx_Resurrect(v) ==
    CASE v.payload = "_vertex" ->
            Returned([v EXCEPT !.payload = "_virtualTx",
                               !.outputs = 0..(v.numOutputs - 1)], "none")
      [] v.payload = "_deletedTx" ->
            Returned([v EXCEPT !.payload = "_virtualTx", !.outputs = {}], "none")
      [] OTHER -> Returned(v, "none")

\* WrappedTx.ConvertToVirtualTx
ConvertToVirtualTx(v) ==
    CASE v.payload = "_vertex" ->
            Returned([v EXCEPT !.payload = "_virtualTx",
                               !.outputs = 0..(v.numOutputs - 1)], "none")
      [] v.payload = "_deletedTx" -> PanicAccessDeleted(v)
      [] OTHER -> Returned(v, "none")

\* WrappedTx.ConvertVirtualTxToVertex, on the vertex of the same transaction
WrappedTx_ConvertVirtualTxToVertex(v) ==
    IF v.payload # "_virtualTx"
    THEN Panicked(v, AssertionFailed)
    ELSE Returned([v EXCEPT !.payload = "_vertex", !.outputs = {}], "none")

\* WrappedTx.OutputAt: the output, "nil" when it is not available, "error"
\* for a wrong index
OutputAt(v, idx) ==
    CASE v.payload = "_vertex" ->
            Returned(v, IF idx < v.numOutputs THEN "output" ELSE "error")
      [] v.payload = "_virtualTx" ->
            Returned(v, IF idx \in v.outputs THEN "output" ELSE "nil")
      [] v.payload = "_deletedTx" -> Panicked(v, ErrDeletedVertexAccessed)

\* WrappedTx.HasOutputAt: "has it, the index is wrong"
HasOutputAt(v, idx) ==
    CASE v.payload = "_vertex" ->
            Returned(v, IF idx >= v.numOutputs THEN "false, true" ELSE "true, false")
      [] v.payload = "_virtualTx" -> Returned(v, IF idx \in v.outputs THEN "true, false" ELSE "false, false")
      [] v.payload = "_deletedTx" -> Panicked(v, ErrDeletedVertexAccessed)

\* WrappedTx.Unwrap: the closure of the payload's type runs if opt has it;
\* the name of the closure that ran is returned, "none" if none ran
Unwrap(v, opt) ==
    CASE v.payload = "_vertex" -> IF "Vertex" \in opt THEN "Vertex" ELSE "none"
      [] v.payload = "_virtualTx" -> IF "VirtualTx" \in opt THEN "VirtualTx" ELSE "none"
      [] v.payload = "_deletedTx" -> IF "Deleted" \in opt THEN "Deleted" ELSE "none"

\* WrappedTx.IsVertex
IsVertex(v) == Returned(v, Bool(Unwrap(v, {"Vertex"}) = "Vertex"))
\* WrappedTx.IsVirtualTx
IsVirtualTx(v) == Returned(v, Bool(Unwrap(v, {"VirtualTx"}) = "VirtualTx"))
\* WrappedTx.NumProducedOutputs
WrappedTx_NumProducedOutputs(v) ==
    Returned(v, ToString(IF Unwrap(v, {"Vertex"}) = "Vertex" THEN v.numOutputs ELSE 0))

\* WrappedTx.BaselineBranch
WrappedTx_BaselineBranch(v) ==
    CASE Unwrap(v, {"Vertex", "VirtualTx", "Deleted"}) = "Vertex" ->
            Returned(v, v.BaselineBranch)
      [] Unwrap(v, {"Vertex", "VirtualTx", "Deleted"}) = "VirtualTx" ->
            Returned(v, IF v.isBranch /\ v.txStatus = Good THEN "vid" ELSE "nil")
      [] OTHER -> PanicAccessDeleted(v)

\* a new VID: WrapTxID makes a virtual transaction without outputs, vertex.New
\* wraps a full vertex
InitVp ==
    /\ vpVid \in [payload : {"_vertex", "_virtualTx"}, txStatus : {Undefined},
                  isBranch : BOOLEAN, numOutputs : 1..2, outputs : {{}},
                  BaselineBranch : {"nil", "branch"}]
    /\ vpLast = [op |-> "none", ret |-> "none", panic |-> NoPanic]

\* the VID after the operation, and the record of the operation
Done(op, r) ==
    /\ vpVid' = r.v
    /\ vpLast' = [op |-> op, ret |-> r.ret, panic |-> r.panic]
    /\ UNCHANGED vpFrame

Call_MarkDeleted ==
    \E r \in {MarkDeleted(vpVid)} : Done("MarkDeleted", r)
Call_ConvertToVirtualTx ==
    \E r \in {ConvertToVirtualTx(vpVid)} : Done("ConvertToVirtualTx", r)
Call_ConvertVirtualTxToVertex ==
    \E r \in {WrappedTx_ConvertVirtualTxToVertex(vpVid)} : Done("ConvertVirtualTxToVertex", r)
Call_OutputAt(idx) ==
    \E r \in {OutputAt(vpVid, idx)} : Done("OutputAt", r)
Call_HasOutputAt(idx) ==
    \E r \in {HasOutputAt(vpVid, idx)} : Done("HasOutputAt", r)
Call_Unwrap(opt) ==
    \E r \in {Returned(vpVid, Unwrap(vpVid, opt))} : Done("Unwrap", r)
Call_IsVertex ==
    \E r \in {IsVertex(vpVid)} : Done("IsVertex", r)
Call_IsVirtualTx ==
    \E r \in {IsVirtualTx(vpVid)} : Done("IsVirtualTx", r)
Call_NumProducedOutputs ==
    \E r \in {WrappedTx_NumProducedOutputs(vpVid)} : Done("NumProducedOutputs", r)
Call_BaselineBranch ==
    \E r \in {WrappedTx_BaselineBranch(vpVid)} : Done("BaselineBranch", r)
Call_SetTxStatus(st) ==
    \E r \in {Returned([vpVid EXCEPT !.txStatus = st], "none")} : Done("SetTxStatus", r)

NextVp ==
    \/ Call_MarkDeleted
    \/ Call_ConvertToVirtualTx
    \/ Call_ConvertVirtualTxToVertex
    \/ \E idx \in VpIndices : Call_OutputAt(idx)
    \/ \E idx \in VpIndices : Call_HasOutputAt(idx)
    \/ \E opt \in SUBSET {"Vertex", "VirtualTx", "Deleted"} : Call_Unwrap(opt)
    \/ Call_IsVertex
    \/ Call_IsVirtualTx
    \/ Call_NumProducedOutputs
    \/ Call_BaselineBranch
    \/ \E st \in {Undefined, Good, Bad} : Call_SetTxStatus(st)

InitVpAlone == InitVp /\ AttIdle /\ IdleExcept("payload")
SpecVp == InitVpAlone /\ [][NextVp]_vars

\* ------------------------------------------------- the proposals of the factory
\* the targets the sequencer proposes for, in this order; a target on a slot
\* boundary is the target of a branch
PrTargetSeq == << <<1, 1>>, <<1, 2>>, <<2, 0>> >>
IsSlotBoundary(ts) == ts[2] = 0

\* Candidate n for target ts.  The transaction id starts with the timestamp; the
\* hash of inputs and endorsements and the ledger coverage depend on what the
\* candidate consumes and endorses, not on the target.
PrTx(ts, n) ==
    [id |-> <<ts[1], ts[2], n>>, ts |-> ts, branch |-> IsSlotBoundary(ts),
     hash |-> n, coverage |-> (n + 1) \div 2]
HashInputsAndEndorsements(tx) == tx.hash
LedgerCoverageFromTransaction(tx) == tx.coverage
NoTx == <<0, 0, 0>>

\* bytes.Compare(id1, id2) > 0 on transaction ids
IdGreater(id1, id2) ==
    \/ id1[1] > id2[1]
    \/ id1[1] = id2[1] /\ id1[2] > id2[2]
    \/ id1[1] = id2[1] /\ id1[2] = id2[2] /\ id1[3] > id2[3]

\* isPreferredMilestoneAgainstTheOther: vid1 is strongly better than vid2; it
\* orders the milestones a proposer may endorse
isPreferredMilestoneAgainstTheOther(vid1, vid2) ==
    IF vid1 = vid2 THEN FALSE
    ELSE IF vid2.id = NoTx THEN TRUE
    ELSE IF LedgerCoverageFromTransaction(vid1) > LedgerCoverageFromTransaction(vid2) THEN TRUE
    ELSE IF LedgerCoverageFromTransaction(vid1) = LedgerCoverageFromTransaction(vid2)
    THEN IdGreater(vid1.id, vid2.id)
    ELSE FALSE

Skipped(p, reason, forceExit) == [p |-> p, rejectReason |-> reason, forceExit |-> forceExit]

\* variant: on equal coverage the proposal with the greater id is preferred
placeProposalIfRelevant_TieBreak(p, md) ==
    IF p.targetTs = NilLogicalTime THEN Skipped(p, "target is nil", FALSE)
    ELSE IF md.tx.ts # p.targetTs THEN Skipped(p, "task is behind target", TRUE)
    ELSE IF p.current # NoTx /\ p.current = md.tx.id THEN Skipped(p, "repeating", FALSE)
    ELSE IF /\ ~md.tx.branch
            /\ \/ md.coverage < p.bestSoFarCoverage
               \/ /\ md.coverage = p.bestSoFarCoverage
                  /\ ~(p.current # NoTx /\ IdGreater(md.tx.id, p.current))
    THEN Skipped(p, "no increase in coverage", FALSE)
    ELSE Skipped([p EXCEPT !.bestSoFarCoverage = md.coverage, !.current = md.tx.id], "", FALSE)

\* variant: a proposal is placed whatever target its task worked for
placeProposalIfRelevant_NoTargetCheck(p, md) ==
    IF p.targetTs = NilLogicalTime THEN Skipped(p, "target is nil", FALSE)
    ELSE IF p.current # NoTx /\ p.current = md.tx.id THEN Skipped(p, "repeating", FALSE)
    ELSE IF ~md.tx.branch /\ md.coverage <= p.bestSoFarCoverage
    THEN Skipped(p, "no increase in coverage", FALSE)
    ELSE Skipped([p EXCEPT !.bestSoFarCoverage = md.coverage, !.current = md.tx.id], "", FALSE)

\* proposerTaskGeneric.placeProposalIfRelevant, under factory.proposal.mutex
placeProposalIfRelevant(p, md) ==
    IF p.targetTs = NilLogicalTime THEN Skipped(p, "target is nil", FALSE)
    ELSE IF md.tx.ts # p.targetTs THEN Skipped(p, "task is behind target", TRUE)
    ELSE IF p.current # NoTx /\ p.current = md.tx.id THEN Skipped(p, "repeating", FALSE)
    ELSE IF ~md.tx.branch /\ md.coverage <= p.bestSoFarCoverage
    THEN Skipped(p, "no increase in coverage", FALSE)
    ELSE Skipped([p EXCEPT !.bestSoFarCoverage = md.coverage, !.current = md.tx.id], "", FALSE)

\* variant: a proposal the task made before is placed again
assessAndAcceptProposalResult_NoDuplicateCheck(p, task, tx) ==
    LET r == placeProposalIfRelevant(p, [tx |-> tx, coverage |-> LedgerCoverageFromTransaction(tx)])
    IN  [p |-> r.p,
         task |-> [task EXCEPT !.alreadyProposed = @ \cup {HashInputsAndEndorsements(tx)}],
         forceExit |-> r.forceExit]

\* proposerTaskGeneric.assessAndAcceptProposal: the proposal of the factory and
\* the task after it, and the forceExit it returns
assessAndAcceptProposalResult(p, task, tx) ==
    IF HashInputsAndEndorsements(tx) \in task.alreadyProposed
    THEN [p |-> p, task |-> task, forceExit |-> FALSE]
    ELSE LET r == placeProposalIfRelevant(p, [tx |-> tx,
                                              coverage |-> LedgerCoverageFromTransaction(tx)])
         IN  [p |-> r.p,
              task |-> [task EXCEPT !.alreadyProposed = @ \cup {HashInputsAndEndorsements(tx)}],
              forceExit |-> r.forceExit]

\* variant: every new target resets the best coverage so far
setNewTarget_AlwaysReset(p, ts) ==
    [p EXCEPT !.targetTs = ts, !.current = NoTx, !.bestSoFarCoverage = 0]

\* variant: the best coverage so far is carried over to every new target
setNewTarget_KeepBest(p, ts) ==
    [p EXCEPT !.targetTs = ts, !.current = NoTx]

\* milestoneFactory.setNewTarget
setNewTarget(p, ts) ==
    [p EXCEPT !.targetTs = ts,
              !.current = NoTx,
              !.bestSoFarCoverage = IF IsSlotBoundary(ts) THEN 0 ELSE @]

NoTask == [targetTs |-> NilLogicalTime, alreadyProposed |-> {}]
\* newProposerGeneric
newProposerGeneric(targetTs) == [targetTs |-> targetTs, alreadyProposed |-> {}]

\* nothing was read at a deadline yet
NotReturned == [targetTs |-> NilLogicalTime, ret |-> NoTx, offered |-> {}]

\* The goroutines of startProposerWorkers: one for each strategy for the
\* target in force, and one of the target before it, which runs on until it
\* notices that the target has changed.
PrWorkers == 1..(NTasks + 1)

InitPr ==
    /\ prProposal = [targetTs |-> NilLogicalTime, bestSoFarCoverage |-> 0, current |-> NoTx]
    /\ prTasks = [t \in PrWorkers |-> NoTask]
    /\ prTargets = 0
    /\ prOffered = {}
    /\ prReturned = NotReturned

\* startProposingForTargetLogicalTime, up to the wait for the deadline: the
\* target is set and a worker is started for each strategy; the workers of the
\* target before are not waited for
StartProposing ==
    /\ prTargets < Len(PrTargetSeq)
    /\ prProposal.targetTs = NilLogicalTime
    /\ prTargets' = prTargets + 1
    /\ prProposal' = setNewTarget(prProposal, PrTargetSeq[prTargets + 1])
    /\ \E s \in 1..NTasks :
          prTasks' = [t \in PrWorkers |->
                        IF t <= NTasks THEN newProposerGeneric(PrTargetSeq[prTargets + 1])
                        ELSE prTasks[s]]
    /\ prOffered' = {}
    /\ UNCHANGED prReturned
    /\ UNCHANGED prFrame

\* startProposingForTargetLogicalTime at the deadline: getLatestProposal reads
\* the current proposal, which is what the function returns
GetLatestProposal ==
    /\ prProposal.targetTs # NilLogicalTime
    /\ prReturned.targetTs # prProposal.targetTs
    /\ prReturned' = [targetTs |-> prProposal.targetTs, ret |-> prProposal.current,
                      offered |-> prOffered]
    /\ UNCHANGED <<prProposal, prTasks, prTargets, prOffered>>
    /\ UNCHANGED prFrame

\* startProposingForTargetLogicalTime after the deadline: the target is set to
\* nil; the workers go on until they notice
StopProposing ==
    /\ prProposal.targetTs # NilLogicalTime
    /\ prReturned.targetTs = prProposal.targetTs
    /\ prProposal' = setNewTarget(prProposal, NilLogicalTime)
    /\ UNCHANGED <<prTasks, prTargets, prOffered, prReturned>>
    /\ UNCHANGED prFrame

\* worker t assesses candidate n for its own target.  The target was the one in
\* force when the worker entered the round (continueCandidateProposing); a
\* worker that finds another target in force leaves, by forceExit or at the
\* head of its next round
assessAndAcceptProposal(t, n) ==
    /\ prTasks[t] # NoTask
    /\ \E r \in {assessAndAcceptProposalResult(prProposal, prTasks[t],
                                               PrTx(prTasks[t].targetTs, n))} :
          /\ prProposal' = r.p
          /\ prTasks' = [prTasks EXCEPT ![t] =
                            IF r.forceExit \/ prTasks[t].targetTs # prProposal.targetTs
                            THEN NoTask ELSE r.task]
    /\ prOffered' = IF prTasks[t].targetTs = prProposal.targetTs
                    THEN prOffered \cup {n} ELSE prOffered
    /\ UNCHANGED <<prTargets, prReturned>>
    /\ UNCHANGED prFrame

NextPr ==
    \/ StartProposing
    \/ GetLatestProposal
    \/ StopProposing
    \/ \E t \in PrWorkers, n \in 1..NProposals : assessAndAcceptProposal(t, n)

InitPrAlone == InitPr /\ AttIdle /\ IdleExcept("proposer")
SpecPr == InitPrAlone /\ [][NextPr]_vars

\* ------------------------------------------------- the tip pool
\* The milestones the tip pool may observe: two different transactions for
\* each sequencer and timestamp (a sequencer chain may fork).
TpMilestones ==
    {[seqID |-> q, ts |-> ts, fork |-> f] :
        q \in 1..NSequencers, ts \in 1..NTimestamps, f \in {"a", "b"}}
\* no entry in the map
NoMilestone == [seqID |-> 0, ts |-> 0, fork |-> ""]
\* an entry: the VID and whether the VID is Bad or deleted by now
TpEntry(vid, bad) == [vid |-> vid, IsBadOrDeleted |-> bad]

\* variant: the incoming milestone is stored whatever its timestamp
storeLatestMilestone_Always(latestMilestones, vid) ==
    [latestMilestones EXCEPT ![vid.seqID] = TpEntry(vid, FALSE)]

\* the callback tippool.New registers with ListenToSequencers, on the map
storeLatestMilestone(latestMilestones, vid) ==
    LET old == latestMilestones[vid.seqID].vid
        prevExists == old # NoMilestone
    IN  IF ~prevExists \/ ~(vid.ts < old.ts)
        THEN [latestMilestones EXCEPT ![vid.seqID] = TpEntry(vid, FALSE)]
        ELSE latestMilestones

\* SequencerTipPool.purge, on the map: the entries whose VID is Bad or deleted go
purgeLatestMilestones(latestMilestones) ==
    [q \in DOMAIN latestMilestones |->
        IF latestMilestones[q].IsBadOrDeleted
        THEN TpEntry(NoMilestone, FALSE)
        ELSE latestMilestones[q]]

InitTp ==
    tpLatestMilestones = [q \in 1..NSequencers |-> TpEntry(NoMilestone, FALSE)]

\* a new Good sequencer milestone is observed
ListenToSequencers(vid) ==
    /\ tpLatestMilestones' = storeLatestMilestone(tpLatestMilestones, vid)
    /\ UNCHANGED tpFrame

\* purge is called and the clean-up period has passed
purge ==
    /\ tpLatestMilestones' = purgeLatestMilestones(tpLatestMilestones)
    /\ UNCHANGED tpFrame

\* the environment: a stored milestone becomes Bad or is deleted
BecomesBadOrDeleted(q) ==
    /\ tpLatestMilestones[q].vid # NoMilestone
    /\ ~tpLatestMilestones[q].IsBadOrDeleted
    /\ tpLatestMilestones' = [tpLatestMilestones EXCEPT ![q].IsBadOrDeleted = TRUE]
    /\ UNCHANGED tpFrame

NextTp ==
    \/ \E vid \in TpMilestones : ListenToSequencers(vid)
    \/ purge
    \/ \E q \in 1..NSequencers : BecomesBadOrDeleted(q)

InitTpAlone == InitTp /\ AttIdle /\ IdleExcept("tippool")
SpecTp == InitTpAlone /\ [][NextTp]_vars

\* ------------------------------------------------- the consumer queue
\* the threads that push
Pushers == {"A", "B"}

\* An element is its number in the order the Push calls started and the
\* priority it is pushed with.
QElem(n, priority) == [n |-> n, priority |-> priority]
NoElem == QElem(0, FALSE)

\* a non-blocking send to channel in succeeds while the buffer has room: pull
\* receives without blocking under dequeMutex, so no receiver ever waits on in
InHasRoom(q) == Len(q.in) < q.bufsize

\* the signal push leaves on inSignal on its way out
SignalIn(q) == [q EXCEPT !.inSignal = 1]

\* variant: pull takes from the deque before it looks at channel in
pull_DequeFirst(q) ==
    IF q.d # <<>> THEN [q |-> [q EXCEPT !.d = Tail(@)], e |-> Head(q.d), ok |-> TRUE]
    ELSE IF q.in # <<>> THEN [q |-> [q EXCEPT !.in = Tail(@)], e |-> Head(q.in), ok |-> TRUE]
    ELSE [q |-> q, e |-> NoElem, ok |-> FALSE]

\* Queue.pull, under dequeMutex
pull(q) ==
    IF q.in # <<>> THEN [q |-> [q EXCEPT !.in = Tail(@)], e |-> Head(q.in), ok |-> TRUE]
    ELSE IF Len(q.d) = 0 THEN [q |-> q, e |-> NoElem, ok |-> FALSE]
    ELSE [q |-> [q EXCEPT !.d = Tail(@)], e |-> Head(q.d), ok |-> TRUE]

\* Queue.push after the test of closing, under dequeMutex; the channels are open
push(q, elem, priority) ==
    IF Len(q.d) = 0 /\ InHasRoom(q)
    THEN SignalIn([q EXCEPT !.in = Append(@, elem)])
    ELSE LET d1 == IF priority THEN <<elem>> \o q.d ELSE Append(q.d, elem)
             e == Head(d1)
         IN  IF InHasRoom(q)
             THEN SignalIn([q EXCEPT !.in = Append(@, e), !.d = Tail(d1)])
             ELSE SignalIn([q EXCEPT !.d = d1])

\* consumer.New
InitQueue ==
    /\ \E bs \in 0..MaxBufSize :
          queue = [bufsize |-> bs, d |-> <<>>, in |-> <<>>, out |-> <<>>, inSignal |-> 0,
                   closing |-> FALSE, closed |-> FALSE]
    /\ qLoop = [pc |-> "pull", e |-> NoElem]
    /\ qPush = [t \in Pushers |-> [pc |-> "idle", elem |-> NoElem]]
    /\ qConsumer = [received |-> <<>>, done |-> FALSE]
    /\ qReturned = [started |-> 0, accepted |-> <<>>]

\* Push is called: push tests closing and returns false, or goes on to the mutex
Push(t, priority) ==
    /\ qPush[t].pc = "idle"
    /\ qReturned.started < MaxPushes
    /\ qReturned' = [qReturned EXCEPT !.started = @ + 1]
    /\ qPush' = IF queue.closing
                THEN qPush
                ELSE [qPush EXCEPT ![t] = [pc |-> "lock",
                                           elem |-> QElem(qReturned.started + 1, priority)]]
    /\ UNCHANGED <<queue, qLoop, qConsumer>>
    /\ UNCHANGED qFrame

\* push holds dequeMutex: a send to the closed channel in panics, else the
\* element is taken and push returns true
PushLocked(t) ==
    /\ qPush[t].pc = "lock"
    /\ IF queue.closed
       THEN /\ qPush' = [qPush EXCEPT ![t].pc = "panic"]
            /\ UNCHANGED <<queue, qReturned>>
       ELSE /\ queue' = push(queue, qPush[t].elem, qPush[t].elem.priority)
            /\ qPush' = [qPush EXCEPT ![t] = [pc |-> "idle", elem |-> NoElem]]
            /\ qReturned' = [qReturned EXCEPT !.accepted = Append(@, qPush[t].elem)]
    /\ UNCHANGED <<qLoop, qConsumer>>
    /\ UNCHANGED qFrame

\* Queue.Close
Close ==
    /\ ~queue.closing
    /\ queue' = [queue EXCEPT !.closing = TRUE]
    /\ UNCHANGED <<qLoop, qPush, qConsumer, qReturned>>
    /\ UNCHANGED qFrame

\* queueLoop calls pull
LoopPull ==
    /\ qLoop.pc = "pull"
    /\ \E r \in {pull(queue)} :
          /\ queue' = r.q
          /\ qLoop' = IF r.ok THEN [pc |-> "send", e |-> r.e] ELSE [pc |-> "closing?", e |-> NoElem]
    /\ UNCHANGED <<qPush, qConsumer, qReturned>>
    /\ UNCHANGED qFrame

\* queueLoop sends the element to out: into the buffer, or, with no buffer,
\* to Consume that waits on out
LoopSend ==
    /\ qLoop.pc = "send"
    /\ IF queue.bufsize = 0
       THEN /\ qConsumer' = [qConsumer EXCEPT !.received = Append(@, qLoop.e)]
            /\ UNCHANGED queue
       ELSE /\ Len(queue.out) < queue.bufsize
            /\ queue' = [queue EXCEPT !.out = Append(@, qLoop.e)]
            /\ UNCHANGED qConsumer
    /\ qLoop' = [pc |-> "pull", e |-> NoElem]
    /\ UNCHANGED <<qPush, qReturned>>
    /\ UNCHANGED qFrame

\* queueLoop found nothing and tests closing
LoopTestClosing ==
    /\ qLoop.pc = "closing?"
    /\ qLoop' = [qLoop EXCEPT !.pc = IF queue.closing THEN "return" ELSE "wait"]
    /\ UNCHANGED <<queue, qPush, qConsumer, qReturned>>
    /\ UNCHANGED qFrame

\* queueLoop waits: a signal on inSignal
LoopSignalled ==
    /\ qLoop.pc = "wait"
    /\ queue.inSignal = 1
    /\ queue' = [queue EXCEPT !.inSignal = 0]
    /\ qLoop' = [qLoop EXCEPT !.pc = "pull"]
    /\ UNCHANGED <<qPush, qConsumer, qReturned>>
    /\ UNCHANGED qFrame

\* queueLoop waits: the 200 msec pass
LoopTimeout ==
    /\ qLoop.pc = "wait"
    /\ qLoop' = [qLoop EXCEPT !.pc = "pull"]
    /\ UNCHANGED <<queue, qPush, qConsumer, qReturned>>
    /\ UNCHANGED qFrame

\* queueLoop returns: the deferred function closes in, inSignal and out and
\* calls onEmptyAfterClose
LoopReturn ==
    /\ qLoop.pc = "return"
    /\ queue' = [queue EXCEPT !.closed = TRUE]
    /\ qLoop' = [qLoop EXCEPT !.pc = "done"]
    /\ UNCHANGED <<qPush, qConsumer, qReturned>>
    /\ UNCHANGED qFrame

\* Consume: pullOne receives an element from out
ConsumeOne ==
    /\ queue.out # <<>>
    /\ queue' = [queue EXCEPT !.out = Tail(@)]
    /\ qConsumer' = [qConsumer EXCEPT !.received = Append(@, Head(queue.out))]
    /\ UNCHANGED <<qLoop, qPush, qReturned>>
    /\ UNCHANGED qFrame

\* Consume: pullOne finds out closed and empty, Consume returns
ConsumeEnds ==
    /\ queue.out = <<>>
    /\ queue.closed
    /\ ~qConsumer.done
    /\ qConsumer' = [qConsumer EXCEPT !.done = TRUE]
    /\ UNCHANGED <<queue, qLoop, qPush, qReturned>>
    /\ UNCHANGED qFrame

NextQueue ==
    \/ \E t \in Pushers, priority \in BOOLEAN : Push(t, priority)
    \/ \E t \in Pushers : PushLocked(t)
    \/ Close
    \/ LoopPull
    \/ LoopSend
    \/ LoopTestClosing
    \/ LoopSignalled
    \/ LoopTimeout
    \/ LoopReturn
    \/ ConsumeOne
    \/ ConsumeEnds

InitQueueAlone == InitQueue /\ AttIdle /\ IdleExcept("queue")
SpecQueue == InitQueueAlone /\ [][NextQueue]_vars

\* ------------------------------------------------- lazyRepeat, poke and close
\* pokeChan: make(chan struct{}), a channel without a buffer
PokeChanCapacity == 0
ErrInterrupted == "attacher has been interrupted"
ErrAttach == "attachment failed"

\* variant: close leaves the references as they are
closeAttacher_KeepReferences(a) ==
    [a EXCEPT !.closed = TRUE, !.pokeChan = 0]

\* variant: pokeChan has a buffer of one signal
newMilestoneAttacherLoop_Buffered ==
    [pc |-> "fun", phase |-> "baseline", err |-> "", closed |-> FALSE,
     pokeChanCap |-> 1, pokeChan |-> 0,
     numPokes |-> 0, numMissedPokes |-> 0, numPeriodic |-> 0, referenced |-> 1]

\* newMilestoneAttacher, as far as lazyRepeat, _doPoke and close see it: the
\* attacher is about to call the function lazyRepeat repeats; it references
\* its own milestone
newMilestoneAttacherLoop ==
    [pc |-> "fun", phase |-> "baseline", err |-> "", closed |-> FALSE,
     pokeChanCap |-> PokeChanCapacity, pokeChan |-> 0,
     numPokes |-> 0, numMissedPokes |-> 0, numPeriodic |-> 0, referenced |-> 1]

\* milestoneAttacher._doPoke: the attacher after it, and whether the call
\* returned.  A send on pokeChan succeeds when the attacher waits in the
\* select of lazyRepeat or when the buffer has room.
doPoke(a) ==
    IF a.closed THEN [a |-> a, sent |-> TRUE]
    ELSE IF a.pc = "select" /\ a.pokeChan = 0
    THEN [a |-> [a EXCEPT !.pc = "fun", !.numPokes = @ + 1], sent |-> TRUE]
    ELSE IF a.pokeChan < a.pokeChanCap
    THEN [a |-> [a EXCEPT !.pokeChan = @ + 1], sent |-> TRUE]
    ELSE [a |-> [a EXCEPT !.numMissedPokes = @ + 1], sent |-> TRUE]

\* milestoneAttacher.close: the references are released, pokeChan is closed
closeAttacher(a) ==
    [a EXCEPT !.referenced = 0, !.closed = TRUE, !.pokeChan = 0]

InitPoke ==
    /\ pkAttacher = newMilestoneAttacherLoop
    /\ pkStatus = Undefined
    /\ pkCtxDone = FALSE
    /\ pkPoker = "idle"

\* the function lazyRepeat repeats returns status; solidifyBaseline returning
\* Good lets run go on to solidifyPastCone; run returns for good on Bad and
\* after the past cone, and runMilestoneAttacher sets the status
FunReturns(status, refs) ==
    /\ pkAttacher.pc = "fun"
    /\ pkAttacher.referenced + refs <= MaxReferenced
    /\ pkAttacher' =
          [pkAttacher EXCEPT
              !.referenced = @ + refs,
              !.pc = CASE status = Undefined -> "select"
                       [] status = Good /\ pkAttacher.phase = "baseline" -> "fun"
                       [] OTHER -> "returned",
              !.phase = IF status = Good THEN "pastcone" ELSE @,
              !.err = IF status = Bad THEN ErrAttach ELSE @]
    /\ pkStatus' = CASE status = Bad -> Bad
                     [] status = Good /\ pkAttacher.phase = "pastcone" -> Good
                     [] OTHER -> pkStatus
    /\ UNCHANGED <<pkCtxDone, pkPoker>>
    /\ UNCHANGED pkFrame

\* lazyRepeat, case <-a.Ctx().Done(): run returns the error and
\* runMilestoneAttacher sets the status Bad
LazyRepeatInterrupted ==
    /\ pkAttacher.pc = "select"
    /\ pkCtxDone
    /\ pkAttacher' = [pkAttacher EXCEPT !.pc = "returned", !.err = ErrInterrupted]
    /\ pkStatus' = Bad
    /\ UNCHANGED <<pkCtxDone, pkPoker>>
    /\ UNCHANGED pkFrame

\* lazyRepeat, case <-time.After(periodicCheckEach)
LazyRepeatPeriodic ==
    /\ pkAttacher.pc = "select"
    /\ pkAttacher.numPeriodic < MaxPeriodic
    /\ pkAttacher' = [pkAttacher EXCEPT !.pc = "fun", !.numPeriodic = @ + 1]
    /\ UNCHANGED <<pkStatus, pkCtxDone, pkPoker>>
    /\ UNCHANGED pkFrame

\* a thread pokes the attacher; when the attacher waits in the select of
\* lazyRepeat this is also its case <-a.pokeChan
Poke ==
    /\ pkPoker = "idle"
    /\ pkAttacher.numPokes + pkAttacher.numMissedPokes + pkAttacher.pokeChan < MaxPokes
    /\ \E r \in {doPoke(pkAttacher)} :
          /\ pkAttacher' = r.a
          /\ pkPoker' = IF r.sent THEN "idle" ELSE "blocked"
    /\ UNCHANGED <<pkStatus, pkCtxDone>>
    /\ UNCHANGED pkFrame

\* the context is cancelled
CancelAttacherContext ==
    /\ ~pkCtxDone
    /\ pkCtxDone' = TRUE
    /\ UNCHANGED <<pkAttacher, pkStatus, pkPoker>>
    /\ UNCHANGED pkFrame

\* runMilestoneAttacher returned: the deferred go a.close() runs
CloseAttacher ==
    /\ pkAttacher.pc = "returned"
    /\ ~pkAttacher.closed
    /\ pkAttacher' = closeAttacher(pkAttacher)
    /\ UNCHANGED <<pkStatus, pkCtxDone, pkPoker>>
    /\ UNCHANGED pkFrame

NextPoke ==
    \/ \E status \in {Undefined, Good, Bad}, refs \in 0..1 : FunReturns(status, refs)
    \/ LazyRepeatInterrupted
    \/ LazyRepeatPeriodic
    \/ Poke
    \/ CancelAttacherContext
    \/ CloseAttacher

InitPokeAlone == InitPoke /\ AttIdle /\ IdleExcept("poke")
SpecPoke == InitPokeAlone /\ [][NextPoke]_vars

\* The function lazyRepeat repeats returns, the go routine of close runs, and
\* the select of lazyRepeat, which picks at random among the cases that are
\* ready, picks the cancelled context at some point.
FairLazyRepeat ==
    /\ WF_vars(\E status \in {Undefined, Good, Bad}, refs \in 0..1 : FunReturns(status, refs))
    /\ WF_vars(CloseAttacher)
    /\ SF_vars(LazyRepeatInterrupted)
SpecCancel == InitPokeAlone /\ [][NextPoke]_vars /\ FairLazyRepeat

\* ------------------------------------------------ locks held across calls
\* The owners of the mutexes: the VID that notifies, the VID of a consumer
\* (the milestone of the attacher), the tangle, and pokeClosingMutex
LkOwners == {"vid", "consumer", "tangle", "pokeClosing"}

\* WrappedTx.Notify: the callback runs under the read lock of the VID
Notify(vid) ==
    << <<"RLock", vid>>, <<"onNotify", vid>>, <<"RUnlock", vid>> >>

\* WrappedTx.NotifyFutureCone: the consumers and endorsers are notified under
\* the read lock of the notifying VID
NotifyFutureCone(vid, consumer) ==
    << <<"RLock", vid>> >> \o Notify(consumer) \o << <<"RUnlock", vid>> >>

\* WrappedTx.Unwrap, as the locks see it
UnwrapLocking(vid) ==
    << <<"RLock", vid>>, <<"RUnlock", vid>> >>

\* WrappedTx.BaselineBranch: Unwrap is called under the read lock
BaselineBranchLocking(vid) ==
    << <<"RLock", vid>> >> \o UnwrapLocking(vid) \o << <<"RUnlock", vid>> >>

\* UTXOTangle.LatestTimeSlot
LatestTimeSlotLocking ==
    << <<"RLock", "tangle">>, <<"RUnlock", "tangle">> >>

\* UTXOTangle.heaviestBranchForLatestTimeSlot: LatestTimeSlot is called under
\* the read lock
heaviestBranchForLatestTimeSlot ==
    << <<"RLock", "tangle">> >> \o LatestTimeSlotLocking \o << <<"RUnlock", "tangle">> >>

\* WrappedTx.SetTxStatus and WrappedTx.OnNotify, and a writer of the tangle
WriteLocking(owner) ==
    << <<"Lock", owner>>, <<"Unlock", owner>> >>

\* milestoneAttacher: one pass of the function lazyRepeat repeats (Unwrap of
\* the milestone), the select of lazyRepeat, then close, which takes the
\* callback away under pokeClosingMutex
lazyRepeatAndClose ==
    UnwrapLocking("consumer") \o << <<"select", "consumer">> >>
        \o << <<"Lock", "pokeClosing">> >> \o WriteLocking("consumer")
        \o << <<"Unlock", "pokeClosing">> >>

LkThreads == {"notifier", "attacher", "baseline", "status", "heaviest", "tangleWriter"}

\* the call each thread makes
LkCall(t) ==
    CASE t = "notifier" -> NotifyFutureCone("vid", "consumer")
      [] t = "attacher" -> lazyRepeatAndClose
      [] t = "baseline" -> BaselineBranchLocking("consumer")
      [] t = "status" -> WriteLocking("consumer")
      [] t = "heaviest" -> heaviestBranchForLatestTimeSlot
      [] t = "tangleWriter" -> WriteLocking("tangle")

LkReturned(t) == lkPc[t] >= Len(LkCall(t))
LkNextOp(t) == IF LkReturned(t) THEN <<"return", "">> ELSE LkCall(t)[lkPc[t] + 1]

NoMutex == [readers |-> [t \in LkThreads |-> 0], writer |-> "", held |-> FALSE]

\* sync.RWMutex: a reader enters unless a writer holds the mutex or has
\* called Lock and waits for it
RLockReady(mu) == mu.writer = ""

\* sync.RWMutex: the writer that called Lock gets the mutex when the readers
\* that were in have left
LockReady(mu, t) == mu.writer = t /\ ~mu.held /\ \A r \in LkThreads : mu.readers[r] = 0

\* the locks thread t holds
LkHeldBy(t) ==
    {o \in LkOwners : lkMutex[o].readers[t] > 0 \/ (lkMutex[o].writer = t /\ lkMutex[o].held)}

InitLk ==
    /\ lkMutex = [o \in LkOwners |-> NoMutex]
    /\ lkPc = [t \in LkThreads |-> 0]

LkAdvance(t) == lkPc' = [lkPc EXCEPT ![t] = @ + 1]

\* RWMutex.RLock returns
LkRLock(t) ==
    /\ LkNextOp(t)[1] = "RLock"
    /\ RLockReady(lkMutex[LkNextOp(t)[2]])
    /\ lkMutex' = [lkMutex EXCEPT ![LkNextOp(t)[2]].readers[t] = @ + 1]
    /\ LkAdvance(t)
    /\ UNCHANGED lkFrame

\* RWMutex.RUnlock
LkRUnlock(t) ==
    /\ LkNextOp(t)[1] = "RUnlock"
    /\ lkMutex' = [lkMutex EXCEPT ![LkNextOp(t)[2]].readers[t] = @ - 1]
    /\ LkAdvance(t)
    /\ UNCHANGED lkFrame

\* RWMutex.Lock is called: from now on no new reader enters
LkLockCalled(t) ==
    /\ LkNextOp(t)[1] = "Lock"
    /\ lkMutex[LkNextOp(t)[2]].writer = ""
    /\ lkMutex' = [lkMutex EXCEPT ![LkNextOp(t)[2]].writer = t]
    /\ UNCHANGED lkPc
    /\ UNCHANGED lkFrame

\* RWMutex.Lock returns
LkLock(t) ==
    /\ LkNextOp(t)[1] = "Lock"
    /\ LockReady(lkMutex[LkNextOp(t)[2]], t)
    /\ lkMutex' = [lkMutex EXCEPT ![LkNextOp(t)[2]].held = TRUE]
    /\ LkAdvance(t)
    /\ UNCHANGED lkFrame

\* RWMutex.Unlock
LkUnlock(t) ==
    /\ LkNextOp(t)[1] = "Unlock"
    /\ lkMutex' = [lkMutex EXCEPT ![LkNextOp(t)[2]].writer = "",
                                  ![LkNextOp(t)[2]].held = FALSE]
    /\ LkAdvance(t)
    /\ UNCHANGED lkFrame

\* the callback of Notify has run; the attacher is woken in its select
LkGoesOn(t) ==
    /\ LkNextOp(t)[1] \in {"onNotify", "select"}
    /\ LkAdvance(t)
    /\ UNCHANGED lkMutex
    /\ UNCHANGED lkFrame

NextLk ==
    \/ \E t \in LkThreads : LkRLock(t)
    \/ \E t \in LkThreads : LkRUnlock(t)
    \/ \E t \in LkThreads : LkLockCalled(t)
    \/ \E t \in LkThreads : LkLock(t)
    \/ \E t \in LkThreads : LkUnlock(t)
    \/ \E t \in LkThreads : LkGoesOn(t)

InitLkAlone == InitLk /\ AttIdle /\ IdleExcept("locks")
SpecLk == InitLkAlone /\ [][NextLk]_vars

\* ------------------------------------------- withdrawals by sequencer command
\* A fee input: it carries no command for this sequencer, a command that
\* does not parse, or a command to send amount to a target
MaxFeeInputs == 3
MaxWithdrawal == 3
MaxMaximumTotal == 4
AoFeeInputs ==
    {[cmd |-> "none", amount |-> 0], [cmd |-> "error", amount |-> 0]}
        \cup {[cmd |-> "withdraw", amount |-> n] : n \in 1..MaxWithdrawal}
AoInputLists == UNION {[1..n -> AoFeeInputs] : n \in 0..MaxFeeInputs}

\* the loop of makeAdditionalInputsOutputs over the inputs: total is what the
\* loop compares with and is assigned nowhere in it.  maximumTotal - total is
\* a uint64 difference; total <= maximumTotal, so it does not wrap
makeAdditionalInputsOutputsFrom(inputs, maximumTotal, total, retImp, retOut) ==
    LET RECURSIVE Go(_, _, _)
        Go(i, imp, out) ==
            IF i > Len(inputs) THEN [retImp |-> imp, retOut |-> out]
            ELSE IF inputs[i].cmd = "none" THEN Go(i + 1, Append(imp, inputs[i]), out)
            ELSE IF inputs[i].cmd = "error" THEN Go(i + 1, imp, out)
            ELSE IF inputs[i].amount <= maximumTotal - total
            THEN Go(i + 1, Append(imp, inputs[i]), Append(out, inputs[i].amount))
            ELSE Go(i + 1, imp, out)
    IN  Go(1, retImp, retOut)

\* milestoneFactory.makeAdditionalInputsOutputs
makeAdditionalInputsOutputs(inputs, maximumTotal) ==
    makeAdditionalInputsOutputsFrom(inputs, maximumTotal, 0, <<>>, <<>>)

NotMade == [retImp |-> <<>>, retOut |-> <<>>, made |-> FALSE]

InitAo ==
    /\ aoInputs \in AoInputLists
    /\ aoMaximumTotal \in 0..MaxMaximumTotal
    /\ aoReturned = NotMade

\* makeMilestone interprets the sequencer commands in the fee inputs
MakeAdditionalInputsOutputs ==
    /\ ~aoReturned.made
    /\ \E r \in {makeAdditionalInputsOutputs(aoInputs, aoMaximumTotal)} :
          aoReturned' = [retImp |-> r.retImp, retOut |-> r.retOut, made |-> TRUE]
    /\ UNCHANGED <<aoInputs, aoMaximumTotal>>
    /\ UNCHANGED aoFrame

NextAo == MakeAdditionalInputsOutputs

InitAoAlone == InitAo /\ AttIdle /\ IdleExcept("outputs")
SpecAo == InitAoAlone /\ [][NextAo]_vars

\* ------------------------------------------------ waiting for the attachment
\* SequencerMilestoneAttachWait and TransactionInWaitAppend: the caller waits
\* in a select for the result channel or the timeout; the attachment callback
\* (or, after a failed TxBytesIn, the goroutine itself) writes the result to the
\* unbuffered channel under the close mutex, unless the closed flag is up; the
\* deferred function of the caller takes the mutex, raises the flag and closes
\* the channel.
NWaitCalls == 2
WaitCalls == 1..NWaitCalls
WaitFunctions == {"SequencerMilestoneAttachWait", "TransactionInWaitAppend"}

InitAw ==
    /\ awCall \in [WaitCalls -> [fn : WaitFunctions, errIngress : BOOLEAN,
                                 attached : {"good", "bad"}]]
    /\ awMain = [c \in WaitCalls |-> [pc |-> "start", ret |-> "none"]]
    /\ awWriter = [c \in WaitCalls |-> "idle"]
    /\ awChan = [c \in WaitCalls |-> [mutex |-> "", closed |-> FALSE]]

\* the caller starts: SequencerMilestoneAttachWait starts the goroutine that
\* calls TxBytesIn and waits in the select; TransactionInWaitAppend calls
\* TransactionInReturnTx itself and returns its error at once
WaitStart(c) ==
    /\ awMain[c].pc = "start"
    /\ awMain' = [awMain EXCEPT ![c] =
                    IF awCall[c].fn = "TransactionInWaitAppend" /\ awCall[c].errIngress
                    THEN [pc |-> "defer", ret |-> "ingress error"]
                    ELSE [pc |-> "select", ret |-> "none"]]
    /\ UNCHANGED <<awCall, awWriter, awChan>>
    /\ UNCHANGED awFrame

\* the result is there to be written: the attacher calls the callback (the
\* "finish" event), or TxBytesIn has returned errParse to the goroutine
WriteResultCalled(c) ==
    /\ awMain[c].pc # "start"
    /\ awWriter[c] = "idle"
    /\ awCall[c].errIngress => awCall[c].fn = "SequencerMilestoneAttachWait"
    /\ awWriter' = [awWriter EXCEPT ![c] = "lock"]
    /\ UNCHANGED <<awCall, awMain, awChan>>
    /\ UNCHANGED awFrame

\* the writer takes the close mutex and tests the closed flag: it returns, or
\* goes on to send on the channel with the mutex held
WriteResultLocked(c) ==
    /\ awWriter[c] = "lock"
    /\ awChan[c].mutex = ""
    /\ IF awChan[c].closed
       THEN /\ awWriter' = [awWriter EXCEPT ![c] = "done"]
            /\ UNCHANGED awChan
       ELSE /\ awWriter' = [awWriter EXCEPT ![c] = "send"]
            /\ awChan' = [awChan EXCEPT ![c].mutex = "writer"]
    /\ UNCHANGED <<awCall, awMain>>
    /\ UNCHANGED awFrame

\* select, case of the result channel: the send of the writer meets the
\* receive of the caller
WaitReceives(c) ==
    /\ awMain[c].pc = "select"
    /\ awWriter[c] = "send"
    /\ awMain' = [awMain EXCEPT ![c] =
                    [pc |-> "defer",
                     ret |-> IF awCall[c].errIngress THEN "ingress error"
                             ELSE awCall[c].attached]]
    /\ awWriter' = [awWriter EXCEPT ![c] = "sent"]
    /\ UNCHANGED <<awCall, awChan>>
    /\ UNCHANGED awFrame

\* the writer returns after its send: the deferred Unlock
WriteResultReturns(c) ==
    /\ awWriter[c] = "sent"
    /\ awWriter' = [awWriter EXCEPT ![c] = "done"]
    /\ awChan' = [awChan EXCEPT ![c].mutex = ""]
    /\ UNCHANGED <<awCall, awMain>>
    /\ UNCHANGED awFrame

\* select, case of time.After(timeout)
WaitTimesOut(c) ==
    /\ awMain[c].pc = "select"
    /\ awMain' = [awMain EXCEPT ![c] = [pc |-> "defer", ret |-> "timeout"]]
    /\ UNCHANGED <<awCall, awWriter, awChan>>
    /\ UNCHANGED awFrame

\* the deferred function of the caller: under the close mutex the flag is
\* raised and the channel is closed; then the call returns
WaitReturns(c) ==
    /\ awMain[c].pc = "defer"
    /\ awChan[c].mutex = ""
    /\ awChan' = [awChan EXCEPT ![c].closed = TRUE]
    /\ awMain' = [awMain EXCEPT ![c].pc = "returned"]
    /\ UNCHANGED <<awCall, awWriter>>
    /\ UNCHANGED awFrame

NextAw ==
    \E c \in WaitCalls :
        \/ WaitStart(c)
        \/ WriteResultCalled(c)
        \/ WriteResultLocked(c)
        \/ WaitReceives(c)
        \/ WriteResultReturns(c)
        \/ WaitTimesOut(c)
        \/ WaitReturns(c)

InitAwAlone == InitAw /\ AttIdle /\ IdleExcept("wait")
SpecAw == InitAwAlone /\ [][NextAw]_vars

\* ------------------------------------------------- vocabulary of the properties
Milestones == {t \in TxIds : IsSequencerMilestone(t)}
AllOutputIds == UNION {{<<t, i>> : i \in 0..(NumProducedOutputs(t) - 1)} : t \in TxIds}
InputsOf(t) == {MustInputAt(t, i) : i \in 0..(NumInputs(t) - 1)}
EndorsedBy(t) == {EndorsementAt(t, i) : i \in 0..(NumEndorsements(t) - 1)}
\* the consumer set of an output in the current state
Consumers(oid) == ConsumersOf([vx |-> vx], oid[1], oid[2])
\* the past cone an attacher has collected
PastCone(m) == att[m].validPastVertices \cup att[m].undefinedPastVertices
\* the transactions that consume an output
Spenders(oid) == {t \in TxIds : oid \in InputsOf(t)}

RECURSIVE SumOfAmounts(_)
SumOfAmounts(S) ==
    IF S = {} THEN 0
    ELSE LET o == CHOOSE x \in S : TRUE IN Amount(o) + SumOfAmounts(S \ {o})

\* the transactions of the past cone of t, down to the branches (not included)
RECURSIVE ConeOf(_)
ConeOf(t) ==
    {t} \cup UNION {ConeOf(d) : d \in {x \in {o[1] : o \in InputsOf(t)} \cup EndorsedBy(t) :
                                          ~IsBranchTransaction(x)}}
\* the outputs that two or more transactions of the past cone of m consume
DoubleSpentIn(m) ==
    With(ConeOf(m), LAMBDA cone :
        {oid \in AllOutputIds : Cardinality(Spenders(oid) \cap cone) >= 2})

C2_DoubleSpendsNotInOnePastCone ==
    \A m \in Milestones :
        /\ att[m].reason.kind = "conflict" => att[m].reason.oid \in DoubleSpentIn(m)
        /\ (vx[m].status = Good \/ att[m].phase = "done") =>
              (DoubleSpentIn(m) # {} =>
                  /\ vx[m].status # Good
                  /\ att[m].phase = "done" =>
                        /\ vx[m].status = Bad
                        /\ att[m].reason.kind \in {"conflict", "interrupted"})

\* two milestones, each over one of the double spenders, are Good and the
\* milestone over both failed with the conflict on the double-spent output
C2_Witness ==
    /\ scenario = "doublespend"
    /\ vx[MA].status = Good /\ vx[MB].status = Good
    /\ T(1) \in att[MA].validPastVertices /\ T(2) \in att[MB].validPastVertices
    /\ vx[MC].status = Bad
    /\ att[MC].reason = Reason("conflict", <<G, 3>>)

C4_RootedOutputsAreInBaseline ==
    \A m \in TxIds : \A oid \in att[m].rooted :
        /\ att[m].baselineBranch \in DOMAIN branches
        /\ HasUTXO(branches[att[m].baselineBranch], oid)

\* an attacher holds a rooted output and refused an output its baseline has consumed
C4_Witness ==
    \E m \in TxIds :
        /\ att[m].rooted # {}
        /\ att[m].reason.kind = "consumedInBaseline"
        /\ att[m].reason.oid \notin att[m].rooted

\* ----------------------------------------------------------------------- C5
\* C5: the coverage delta of an attacher is the sum of the amounts of its rooted
\* outputs, each counted once.
C5_CoverageDeltaIsRootedSum ==
    \A m \in TxIds : att[m].coverageDelta = SumOfAmounts(att[m].rooted)

\* an attacher that suspended with rooted outputs, and so attaches them again
\* on its next pass, next to one that finished over several rooted outputs
C5_Witness ==
    /\ \E m \in TxIds : att[m].phase = "pastcone" /\ Cardinality(att[m].rooted) >= 2
                         /\ att[m].coverageDelta > 0
    /\ \E m \in TxIds : att[m].phase = "done" /\ vx[m].status = Good
                         /\ Cardinality(att[m].rooted) >= 2

\* ----------------------------------------------------------------------- C6
\* C6: two distinct registered branches of one slot are never compatible, so
\* for registered branches b1, b2, b3 of one slot branchesCompatible(b1, b2) and
\* branchesCompatible(b2, b3) imply b1 = b2 = b3.
C6_SameSlotBranchesCompatibleOnlyIfEqual ==
    \A b1, b2, b3 \in DOMAIN branches :
        /\ (Slot(b1) = Slot(b2) /\ b1 # b2) => ~branchesCompatible(b1, b2)
        /\ (Slot(b1) = Slot(b2) /\ Slot(b2) = Slot(b3)
              /\ branchesCompatible(b1, b2) /\ branchesCompatible(b2, b3))
           => (b1 = b2 /\ b2 = b3)

\* two distinct branches of one slot are registered in the DAG
C6_Witness ==
    \E b1, b2 \in DOMAIN branches : b1 # b2 /\ Slot(b1) = Slot(b2)

\* ----------------------------------------------------------------------- C7
\* the sequencer milestones a milestone endorses or consumes
SeqDeps(m) ==
    {x \in {o[1] : o \in InputsOf(m)} \cup EndorsedBy(m) : IsSequencerMilestone(x)}
\* two branches are on one chain of stems: equal, or one descends from the other
OnOneChain(b1, b2) == BranchIsDescendantOf(b1, b2) \/ BranchIsDescendantOf(b2, b1)
\* m has a baseline and endorses or consumes a milestone whose baseline is
\* known and is not on one chain with it
IncompatibleDep(m) ==
    \E e \in SeqDeps(m) :
        /\ att[m].baselineBranch # Nil
        /\ BaselineBranch([vx |-> vx], e) # Nil
        /\ ~OnOneChain(att[m].baselineBranch, BaselineBranch([vx |-> vx], e))

\* C7: a sequencer milestone that endorses or consumes a sequencer milestone
\* whose baseline branch is not compatible with its own is never Good; when its
\* attachment has ended it is Bad, with the incompatible-branches error unless
\* the attacher was interrupted first.
C7_IncompatibleBaselineRejected ==
    \A m \in Milestones :
        IncompatibleDep(m) =>
            /\ vx[m].status # Good
            /\ att[m].phase = "done" =>
                  /\ vx[m].status = Bad
                  /\ att[m].reason.kind \in {"incompatible", "interrupted"}

\* the endorsing milestone and the consuming milestone both ended Bad with
\* the incompatible-branches error
C7_Witness ==
    /\ scenario = "branches"
    /\ IncompatibleDep(MX) /\ IncompatibleDep(MY)
    /\ vx[MX].status = Bad /\ att[MX].reason.kind = "incompatible"
    /\ vx[MY].status = Bad /\ att[MY].reason.kind = "incompatible"

\* ---------------------------------------------------------------------- C10
\* the bytes of txid went through the ingress before and were accepted
AcceptedBefore(txid) ==
    txid \in delayed \/ FlagVertexTxAttachmentStarted \in vx[txid].vidFlags
AttachedBefore(txid) == FlagVertexTxAttachmentStarted \in vx[txid].vidFlags

\* C10: at most one VID is ever created for a transaction id, and an ingress
\* call on bytes that were accepted before leaves every consumer set, every
\* rooted set and every coverage delta as they were; when the transaction is
\* attached already, the call changes no VID, no attacher and no branch.
C10_IdempotentIngress ==
    /\ [](\A t \in AllTxIds : vidsCreated[t] <= 1)
    /\ [][\A t \in TxIds :
            (/\ <<vx, att, branches>> # <<vx', att', branches'>>
             /\ AcceptedBefore(t)
             /\ ingressReturned'[t] # "none"
             /\ \E x, e, f \in BOOLEAN : TxBytesIn(t, x, e, f)) =>
               /\ \A u \in AllTxIds :
                     /\ vx'[u].consumers = vx[u].consumers
                     /\ att'[u].rooted = att[u].rooted
                     /\ att'[u].coverageDelta = att[u].coverageDelta
               /\ AttachedBefore(t) => UNCHANGED <<vx, att, branches>>]_vars

\* a milestone whose attacher has collected rooted outputs and coverage, so
\* that another ingress call on its bytes has something to disturb
C10_Witness ==
    \E t \in Milestones \ {G} :
        /\ AttachedBefore(t)
        /\ vidsCreated[t] = 1
        /\ att[t].rooted # {} /\ att[t].coverageDelta > 0
        /\ \E u \in TxIds : t \in Consumers(<<u, 0>>)

\* ----------------------------------------------------------------------- C9
\* C9: with callers attaching transaction ids concurrently, the assertion of
\* AddVertexNoLock never fails, at most one VID is ever inserted for an id, and
\* every caller that has returned from AttachTxID holds the VID the DAG stores
\* for its id, which is also what a later GetVertex returns to it.
C9_AttachTxIDIdempotentUnderConcurrency ==
    /\ ~dagAssertFailed
    /\ \A t \in DOMAIN dagInserted : dagInserted[t] <= 1
    /\ \A c \in DOMAIN dagPc :
          /\ dagPc[c] \in {"attached", "read", "done"} =>
                /\ dagLocal[c] # NoPtr
                /\ dagLocal[c] = dagVertices[dagTarget[c]]
                /\ dagInserted[dagTarget[c]] = 1
          /\ dagPc[c] = "done" => dagSeen[c] = dagLocal[c]

\* two callers attached the same id, both returned and both hold the one VID
C9_Witness ==
    \E c1, c2 \in DOMAIN dagPc :
        /\ c1 # c2
        /\ dagPc[c1] = "done" /\ dagPc[c2] = "done"
        /\ dagTarget[c1] = dagTarget[c2]
        /\ dagLocal[c1] = dagLocal[c2] /\ dagLocal[c1] = c2

\* ----------------------------------------------------------------------- C8
\* the registered branches of the latest slot
LatestSlotBranches ==
    {b \in DOMAIN hbBranches : \A o \in DOMAIN hbBranches : hbBranches[o].slot <= hbBranches[b].slot}
\* b is above every other branch of the set: larger coverage, or equal coverage
\* and greater id
Heaviest(b, S) ==
    \A o \in S \ {b} :
        \/ hbBranches[b].coverage > hbBranches[o].coverage
        \/ (hbBranches[b].coverage = hbBranches[o].coverage /\ b > o)

\* C8: a call of HeaviestBranchOfLatestTimeSlot since whose start the registry
\* has not changed has returned the registered branch of the maximum registered slot that
\* has the largest coverage, the greater id among equal coverages; the result is
\* a function of the registry contents, whatever the order of the map iteration.
C8_HeaviestBranchOfLatestTimeSlot ==
    (hbPc = "returned" /\ ~hbChanged) =>
        /\ hbResult \in LatestSlotBranches
        /\ Heaviest(hbResult, LatestSlotBranches)

\* a call returned over a registry where two branches of the latest slot tie
\* on coverage and a branch of an earlier slot has more coverage than both
C8_Witness ==
    /\ hbPc = "returned" /\ ~hbChanged
    /\ \E b1, b2, b3 \in DOMAIN hbBranches :
          /\ b1 # b2
          /\ {b1, b2} \subseteq LatestSlotBranches
          /\ hbBranches[b1].coverage = hbBranches[b2].coverage
          /\ hbBranches[b3].slot < hbBranches[b1].slot
          /\ hbBranches[b3].coverage > hbBranches[b1].coverage
          /\ hbResult \in {b1, b2}

FailsAtIngress(t, x, e) == (x /\ e) \/ ~Validate(t)

DirectDeps(m) == {o[1] : o \in InputsOf(m)} \cup EndorsedBy(m)
BadDeps(m) == {d \in DirectDeps(m) : vx[d].status = Bad}

\* an attacher of m with a solid baseline runs while one of the VIDs m
\* consumes from or endorses is Bad
ReachesBad(m) ==
    /\ m \in TxIds
    /\ IsSequencerMilestone(m)
    /\ att'[m].baselineBranch # Nil
    /\ BadDeps(m) # {}
    /\ AttacherRun(m)

\* the attachment of m failed in this step, the Bad VIDs were left as they were
FailsAtOnce(m) ==
    /\ att'[m].phase = "done"
    /\ vx'[m].status = Bad
    /\ \A d \in BadDeps(m) : vx'[d] = vx[d]

\* C13 as stated: an attacher that reaches a Bad vertex, input producer or
\* endorsement fails at once, the milestone ends Bad, and the reason is the
\* one recorded on that Bad VID.
C13_CascadeOfBad ==
    [][\A m \in AllTxIds :
          ReachesBad(m) =>
              /\ FailsAtOnce(m)
              /\ vx'[m].reason \in {vx[d].reason : d \in BadDeps(m)}]_vars

\* C13: an attacher that reaches a Bad vertex, input producer or endorsement
\* fails at once and the milestone ends Bad; the reason is the one recorded on
\* that Bad VID, unless the Bad VID is an endorsement whose baseline branch is
\* incompatible with the attacher's, where the reason is the
\* incompatible-baseline error.
C13_CascadeOfBadUnlessIncompatible ==
    [][\A m \in AllTxIds :
          ReachesBad(m) =>
              /\ FailsAtOnce(m)
              /\ \/ vx'[m].reason \in {vx[d].reason : d \in BadDeps(m)}
                 \/ \E e \in EndorsedBy(m) \cap BadDeps(m) :
                       /\ vx[e].BaselineBranch # Nil
                       /\ ~OnOneChain(att'[m].baselineBranch, vx[e].BaselineBranch)
                       /\ vx'[m].reason =
                              Reason("incompatible", <<vx[e].BaselineBranch, 0>>)]_vars

\* a milestone ended Bad with the reason of the Bad transaction it consumes
\* from, and another with the reason of the Bad milestone it endorses
C13_Witness ==
    /\ scenario = "cascade"
    /\ vx[TV].status = Bad /\ vx[MV].status = Bad
    /\ vx[MV].reason = Reason("constraints", <<TV, 0>>)
    /\ vx[MW].status = Bad /\ att[MW].phase = "done" /\ vx[MW].reason = vx[TV].reason
    /\ vx[ME].status = Bad /\ att[ME].phase = "done" /\ vx[ME].reason = vx[MV].reason
    /\ att[ME].baselineBranch = BA

\* ---------------------------------------------------------------------- C14
\* lazyRepeat runs the attacher again on every poke and every period, until it
\* returns: an attacher that can make a step makes it
FairAttachers == WF_vars(AttacherRun(MA)) /\ WF_vars(AttacherRun(MW))

\* the runs in which a transaction may arrive after its consumer
InitLive == Init /\ scenario \in {"ingress", "cascade"}
NextLive ==
    \/ \E txid \in AllTxIds, x, e, f \in BOOLEAN : TxBytesIn(txid, x, e, f)
    \/ \E txid \in AllTxIds : ReleaseDelayed(txid)
    \/ \E m \in AllTxIds : AttacherRun(m)
    \/ CancelContext
    \/ \E m \in AllTxIds : AttacherInterrupted(m)
SpecLive == InitLive /\ [][NextLive]_vars /\ FairAttachers

\* <<scenario, X, P>>: milestone X consumes, besides the output of its baseline
\* branch, one output of the non-sequencer transaction P
PulledPairs ==
    {<<"ingress", MA, T(1)>>, <<"cascade", MW, TV>>}

\* the attacher of X is suspended on the virtual VID of P
SuspendedOnVirtual(s, X, P) ==
    /\ scenario = s
    /\ att[X].phase = "pastcone"
    /\ vx[P].payload = "virtual"
\* the same, with the pull of P registered
Pulled(s, X, P) == SuspendedOnVirtual(s, X, P) /\ P \in pulls
\* the bytes of P went through the ingress and P is a full vertex
Arrived(P) == vx[P].payload = "vertex"

\* as long as no bytes of P came in, a suspended X is Undefined and P is pulled
PullRegistered ==
    \A pr \in PulledPairs :
        (SuspendedOnVirtual(pr[1], pr[2], pr[3]) /\ ingressReturned[pr[3]] = "none") =>
            /\ pr[3] \in pulls
            /\ vx[pr[2]].status = Undefined

\* an attacher that returned without being interrupted: Good with a valid P,
\* Bad with the reason of P otherwise
PulledOutcome ==
    \A pr \in PulledPairs :
        (/\ scenario = pr[1]
         /\ att[pr[2]].phase = "done"
         /\ att[pr[2]].reason.kind # "interrupted") =>
            IF ValidateConstraints(pr[3])
            THEN vx[pr[2]].status = Good
            ELSE /\ vx[pr[2]].status = Bad
                 /\ vx[pr[3]].status = Bad
                 /\ vx[pr[2]].reason = vx[pr[3]].reason

\* C14: when X consumes an output of P and P is a virtual VID, the pull of P is
\* registered and the attacher of X is suspended with X Undefined; once P is
\* pulled, whenever P has arrived the attacher of X returns, and it ends Good if
\* P validates and Bad with the reason of P if P is Bad.
C14_PulledDependency ==
    /\ [](PullRegistered /\ PulledOutcome)
    /\ \A pr \in PulledPairs :
          [](Pulled(pr[1], pr[2], pr[3]) =>
                 [](Arrived(pr[3]) => <>(att[pr[2]].phase = "done")))

\* the pull of P is registered, the attacher of X is suspended, X is Undefined
C14_Witness ==
    /\ Pulled("ingress", MA, T(1))
    /\ ingressReturned[T(1)] = "none"
    /\ vx[MA].Inputs[2] = T(1)
    /\ vx[MA].status = Undefined

\* ---------------------------------------------------------------------- C15
\* attachRooted answers "not rooted" for output o under baseline branch b
UnrootedIn(b, o) ==
    \/ After(Timestamp(o[1]), Timestamp(b))
    \/ ~KnowsCommittedTransaction(branches[b], o[1])

\* the unrooted outputs an attacher with baseline b reaches from output o
\* without passing through a sequencer milestone
RECURSIVE ChainFrom(_, _)
ChainFrom(b, o) ==
    IF ~UnrootedIn(b, o) THEN {}
    ELSE IF IsSequencerMilestone(o[1]) THEN {o}
    ELSE {o} \cup UNION {ChainFrom(b, MustInputAt(o[1], i)) : i \in 0..(NumInputs(o[1]) - 1)}

HasBaseline(m) == att[m].baselineBranch # Nil /\ att[m].baselineBranch \in DOMAIN branches

\* an unrooted output behind an input of m is strictly older than the baseline
\* of m minus K slots
OldBehindBaseline(m) ==
    \E i \in 0..(NumInputs(m) - 1) :
        \E o \in ChainFrom(att[m].baselineBranch, MustInputAt(m, i)) :
            Before(Timestamp(o[1]),
                   <<SlotMinus(Slot(att[m].baselineBranch), maxToleratedParasiticChainSlots), 0>>)

\* an unrooted output behind an input of m is strictly older than the slot of
\* that input's transaction minus K slots
OldBehindInput(m) ==
    \E i \in 0..(NumInputs(m) - 1) :
        \E o \in ChainFrom(att[m].baselineBranch, MustInputAt(m, i)) :
            Before(Timestamp(o[1]),
                   <<SlotMinus(Slot(MustInputAt(m, i)[1]), maxToleratedParasiticChainSlots), 0>>)

ParasiticRejected(m) ==
    /\ vx[m].status # Good
    /\ att[m].phase = "done" =>
          /\ vx[m].status = Bad
          /\ att[m].reason.kind \in {"parasitic", "interrupted"}

EndorsementsWellFormed(tx) ==
    /\ Len(tx.endorsements) = 0 \/ tx.seq
    /\ \A i \in 1..Len(tx.endorsements) :
          tx.endorsements[i].seq /\ tx.endorsements[i].slot = tx.slot

\* C16: a transaction passes CheckEndorsements iff (it has no endorsements or
\* it is a sequencer milestone) and every endorsed id is a sequencer-milestone
\* id of the transaction's slot; otherwise an error is returned.
C16_EndorsementPreValidation ==
    tvEndorsementsErr \notin {"off", "unchecked"} =>
        (tvEndorsementsErr = "nil" <=> EndorsementsWellFormed(tvTx))

\* a sequencer milestone whose last endorsement is of another slot was rejected
C16_Witness ==
    /\ tvEndorsementsErr = "can't endorse tx from another slot"
    /\ tvTx.seq
    /\ Len(tvTx.endorsements) = MaxEndorsements
    /\ tvTx.endorsements[1].slot = tvTx.slot
    /\ tvTx.endorsements[MaxEndorsements].seq

\* ---------------------------------------------------------------------- C17
\* the sum of the amounts as a number, without any width
RECURSIVE TotalOfAmounts(_, _)
TotalOfAmounts(outs, i) ==
    IF i > Len(outs) THEN 0 ELSE outs[i].amount + TotalOfAmounts(outs, i + 1)
AllOutputsParse(tx) == \A i \in 1..Len(tx.outputs) : tx.outputs[i].parses

\* C17: a transaction passes ScanOutputs iff its outputs parse and the sum of
\* their amounts equals the total amount field; a sum beyond the range of the
\* amount type is rejected as arithmetic overflow, it does not wrap.
C17_Conservation ==
    tvOutputsErr \notin {"off", "unchecked"} =>
        /\ tvOutputsErr = "nil" <=>
              (AllOutputsParse(tvTx) /\ TotalOfAmounts(tvTx.outputs, 1) = tvTx.totalAmount)
        /\ (AllOutputsParse(tvTx) /\ TotalOfAmounts(tvTx.outputs, 1) > MaxAmount) =>
              tvOutputsErr = "arithmetic overflow"

\* a sum that would wrap to the total amount field was rejected as overflow
C17_Witness ==
    /\ tvOutputsErr = "arithmetic overflow"
    /\ TotalOfAmounts(tvTx.outputs, 1) > MaxAmount
    /\ TotalOfAmounts(tvTx.outputs, 1) % (MaxAmount + 1) = tvTx.totalAmount

\* ---------------------------------------------------------------------- C18
\* an operation was called on the VID while its payload was Deleted
CalledOnDeleted(ops) ==
    /\ vpVid # <<>>
    /\ vpVid.payload = "_deletedTx"
    /\ vpLast' # vpLast
    /\ vpLast'.op \in ops

DeletedStays == (vpVid # <<>> /\ vpVid.payload = "_deletedTx") => vpVid'.payload = "_deletedTx"

\* C18 as stated: once the payload is Deleted it stays Deleted, and
\* MarkDeleted, ConvertToVirtualTx, OutputAt, HasOutputAt, BaselineBranch,
\* Unwrap and the accessors built on Unwrap fail with the deleted-vertex error.
C18_DeletedAnyAccessFails ==
    [][/\ DeletedStays
       /\ CalledOnDeleted({"MarkDeleted", "ConvertToVirtualTx", "OutputAt", "HasOutputAt",
                           "BaselineBranch", "Unwrap", "IsVertex", "IsVirtualTx",
                           "NumProducedOutputs"}) =>
             vpLast'.panic = ErrDeletedVertexAccessed]_vars

\* C18: once the payload is Deleted it stays Deleted; MarkDeleted,
\* ConvertToVirtualTx, OutputAt, HasOutputAt and BaselineBranch fail with the
\* deleted-vertex error; Unwrap does not fail, it runs the Deleted closure when
\* it is given one and nothing otherwise, and the accessors that give it none
\* return their zero value.
C18_DeletedIsTerminal ==
    [][/\ DeletedStays
       /\ CalledOnDeleted({"MarkDeleted", "ConvertToVirtualTx", "OutputAt", "HasOutputAt",
                           "BaselineBranch"}) =>
             vpLast'.panic = ErrDeletedVertexAccessed
       /\ CalledOnDeleted({"Unwrap"}) =>
             vpLast'.panic = NoPanic /\ vpLast'.ret \in {"Deleted", "none"}
       /\ CalledOnDeleted({"IsVertex", "IsVirtualTx"}) =>
             vpLast'.panic = NoPanic /\ vpLast'.ret = "false"
       /\ CalledOnDeleted({"NumProducedOutputs"}) =>
             vpLast'.panic = NoPanic /\ vpLast'.ret = "0"]_vars

\* the payload is Deleted and a second MarkDeleted failed on it
C18_Witness ==
    /\ vpVid # <<>>
    /\ vpVid.payload = "_deletedTx"
    /\ vpLast.op = "MarkDeleted"
    /\ vpLast.panic = ErrDeletedVertexAccessed

\* ---------------------------------------------------------------------- C19
\* the proposal of the factory changed to candidate tx in this step
BecomesCurrent(tx) == prProposal'.current = tx.id /\ prProposal.current # tx.id

\* the conditions of the acceptance gate for tx placed by worker t
PassesGate(t, tx) ==
    /\ HashInputsAndEndorsements(tx) \notin prTasks[t].alreadyProposed
    /\ tx.ts = prProposal.targetTs
    /\ ~tx.branch => tx.coverage > prProposal.bestSoFarCoverage

\* C19: a proposal becomes the current proposal of the factory only if its hash
\* of inputs and endorsements was not proposed before by the task, its timestamp
\* is the current target and, when it is not a branch, its coverage is strictly
\* greater than the best so far; otherwise the current proposal is unchanged.
C19_ProposalAcceptanceGate ==
    [][\A t \in PrWorkers, n \in 1..NProposals :
          (prTasks # <<>> /\ assessAndAcceptProposal(t, n)) =>
              LET tx == PrTx(prTasks[t].targetTs, n)
              IN  /\ BecomesCurrent(tx) => PassesGate(t, tx)
                  /\ ~PassesGate(t, tx) => prProposal' = prProposal]_vars

\* a candidate with more coverage than the current one took its place
C19_Witness ==
    /\ prProposal # <<>>
    /\ prProposal.targetTs = <<1, 1>>
    /\ prProposal.current = <<1, 1, 3>>
    /\ prProposal.bestSoFarCoverage = 2
    /\ \E t \in 1..NTasks : {1, 3} \subseteq prTasks[t].alreadyProposed

\* ---------------------------------------------------------------------- C20
\* worker t places candidate tx for the current target while a different
\* proposal of the same coverage is current
EqualCoveragePlaced(t, tx) ==
    /\ HashInputsAndEndorsements(tx) \notin prTasks[t].alreadyProposed
    /\ tx.ts = prProposal.targetTs
    /\ prProposal.current # NoTx
    /\ prProposal.current # tx.id
    /\ tx.coverage = prProposal.bestSoFarCoverage

CandidatesOfTarget ==
    IF prProposal = <<>> \/ prProposal.targetTs = NilLogicalTime THEN {}
    ELSE {PrTx(prProposal.targetTs, n) : n \in 1..NProposals}

ReturnedIsBest ==
    /\ prReturned.ret = NoTx <=> prReturned.offered = {}
    /\ prReturned.ret # NoTx =>
          \E n \in prReturned.offered :
              /\ PrTx(prReturned.targetTs, n).id = prReturned.ret
              /\ \A k \in prReturned.offered :
                    PrTx(prReturned.targetTs, k).coverage <= PrTx(prReturned.targetTs, n).coverage

\* the proposal read at the deadline is nil only if nothing was offered, and
\* else one of the offered candidates
ReturnedIsOffered ==
    /\ prReturned.ret = NoTx <=> prReturned.offered = {}
    /\ prReturned.ret # NoTx =>
          \E n \in prReturned.offered : PrTx(prReturned.targetTs, n).id = prReturned.ret

EntryReplacedBy(vid) ==
    /\ tpLatestMilestones[vid.seqID].vid # vid
    /\ tpLatestMilestones'[vid.seqID].vid = vid

\* the timestamp stored for a sequencer id does not decrease in a step that is
\* not a purge
StoredTimestampsGrow ==
    \A q \in 1..NSequencers :
        \/ tpLatestMilestones[q].vid.ts <= tpLatestMilestones'[q].vid.ts
        \/ purge

\* C22 as stated: on a new Good sequencer milestone the entry of its sequencer
\* is replaced iff there is no entry or the timestamp of the new milestone is
\* newer than the stored one; between purges no stored timestamp decreases.
C22_LatestMilestonesNewer ==
    [][tpLatestMilestones # <<>> =>
          /\ \A vid \in TpMilestones :
                ListenToSequencers(vid) =>
                    (EntryReplacedBy(vid) <=>
                        /\ tpLatestMilestones[vid.seqID].vid # vid
                        /\ \/ tpLatestMilestones[vid.seqID].vid = NoMilestone
                           \/ vid.ts > tpLatestMilestones[vid.seqID].vid.ts)
          /\ StoredTimestampsGrow]_vars

\* C22: on a new Good sequencer milestone the entry of its sequencer is
\* replaced iff there is no entry or the timestamp of the new milestone is
\* not before the stored one (a different milestone of the same timestamp
\* replaces the stored one, too); between purges no stored timestamp decreases.
C22_LatestMilestonesNotOlder ==
    [][tpLatestMilestones # <<>> =>
          /\ \A vid \in TpMilestones :
                ListenToSequencers(vid) =>
                    (EntryReplacedBy(vid) <=>
                        /\ tpLatestMilestones[vid.seqID].vid # vid
                        /\ \/ tpLatestMilestones[vid.seqID].vid = NoMilestone
                           \/ vid.ts >= tpLatestMilestones[vid.seqID].vid.ts)
          /\ StoredTimestampsGrow]_vars

\* the later milestone of a sequencer is stored, and an earlier one of the
\* same sequencer could be observed next
C22_Witness ==
    /\ tpLatestMilestones # <<>>
    /\ tpLatestMilestones[1] = TpEntry([seqID |-> 1, ts |-> 2, fork |-> "a"], FALSE)
    /\ tpLatestMilestones[2].vid.ts = 1

\* ---------------------------------------------------------------------- C23
WithoutPriority(e) == ~e.priority
IsPrefixOf(a, b) == Len(a) <= Len(b) /\ \A i \in 1..Len(a) : a[i] = b[i]

\* C23: the elements pushed without priority reach the consumer in the order
\* in which their Push calls took effect, each once: what the consumer has
\* received of them is a prefix of what was accepted of them.
C23_QueueIsFIFO ==
    qConsumer # <<>> =>
        IsPrefixOf(SelectSeq(qConsumer.received, WithoutPriority),
                   SelectSeq(qReturned.accepted, WithoutPriority))

\* with a buffer, three elements pushed without priority were received in order
C23_Witness ==
    /\ queue # <<>>
    /\ queue.bufsize = 1
    /\ qReturned.accepted = <<QElem(1, FALSE), QElem(2, FALSE), QElem(3, FALSE)>>
    /\ qConsumer.received = qReturned.accepted

\* ---------------------------------------------------------------------- C24
\* C24: when Consume has seen out closed, every element whose Push returned
\* true was delivered to the consumer: no accepted element is lost.
C24_NoAcceptedElementLost ==
    (qConsumer # <<>> /\ qConsumer.done) =>
        \A i \in 1..Len(qReturned.accepted) :
            \E j \in 1..Len(qConsumer.received) : qConsumer.received[j] = qReturned.accepted[i]

\* ---------------------------------------------------------------------- C25
\* C25 as stated: once the context is cancelled while the milestone is
\* Undefined, the status the milestone gets is Bad with the cancellation reason.
C25_CancelledEndsBad ==
    [][(pkCtxDone /\ pkStatus = Undefined /\ pkStatus' # Undefined) =>
          (pkStatus' = Bad /\ pkAttacher'.err = ErrInterrupted)]_vars

\* the attacher has returned
AttacherReturned == pkAttacher # <<>> /\ pkAttacher.pc = "returned"

\* C25: an attacher that finds the context cancelled while it waits in
\* lazyRepeat with its milestone Undefined returns, and the milestone becomes
\* Bad with the reason "attacher has been interrupted"; an attacher whose
\* context is cancelled returns in any case, but a pass that was running may
\* finish the attachment first, Good or Bad with its own reason; close, which
\* follows the return, releases the references of the attacher.
C25_CancelledAttacherReturns ==
    /\ [][LazyRepeatInterrupted =>
             /\ pkStatus = Undefined
             /\ pkAttacher'.pc = "returned"
             /\ pkStatus' = Bad
             /\ pkAttacher'.err = ErrInterrupted]_vars
    /\ [](pkAttacher # <<>> =>
             /\ pkAttacher.err = ErrInterrupted => pkStatus = Bad
             /\ pkAttacher.closed => pkAttacher.referenced = 0)
    /\ (pkCtxDone /\ pkStatus = Undefined) ~> (AttacherReturned /\ pkStatus # Undefined)
    /\ AttacherReturned ~> (pkAttacher.closed /\ pkAttacher.referenced = 0)

\* the attacher was interrupted while it held two references, and has closed
C25_Witness ==
    /\ pkAttacher # <<>>
    /\ pkCtxDone
    /\ pkStatus = Bad
    /\ pkAttacher.err = ErrInterrupted
    /\ pkAttacher.phase = "pastcone"
    /\ pkAttacher.closed
    /\ pkAttacher.referenced = 0

\* ---------------------------------------------------------------------- C30
\* the attacher is busy: it is not closed and does not wait in lazyRepeat
AttacherBusy == ~pkAttacher.closed /\ pkAttacher.pc # "select"
AttacherWaits == ~pkAttacher.closed /\ pkAttacher.pc = "select"

\* C30 as stated: a poke never blocks the poking thread, and a poke of a busy
\* attacher is kept as one pending signal on pokeChan.
C30_PokeRetained ==
    [][Poke =>
          /\ pkPoker' = "idle"
          /\ AttacherBusy => pkAttacher'.pokeChan = 1]_vars

\* C30: a poke never blocks the poking thread; a poke of an attacher that
\* waits in lazyRepeat wakes it; a poke of a busy attacher is lost (pokeChan
\* has no buffer) and only counted in numMissedPokes: the attacher looks at
\* its dependencies again with the next periodic check.
C30_PokeLostWhenBusy ==
    [][Poke =>
          /\ pkPoker' = "idle"
          /\ AttacherWaits =>
                pkAttacher' = [pkAttacher EXCEPT !.pc = "fun", !.numPokes = @ + 1]
          /\ AttacherBusy =>
                pkAttacher' = [pkAttacher EXCEPT !.numMissedPokes = @ + 1]
          /\ pkAttacher.closed => pkAttacher' = pkAttacher]_vars

\* one poke woke the attacher and the next one, while it was busy, was lost
C30_Witness ==
    /\ pkAttacher # <<>>
    /\ pkAttacher.pc = "fun"
    /\ pkAttacher.numPokes = 1
    /\ pkAttacher.numMissedPokes = 1
    /\ pkAttacher.numPeriodic = 0

\* ---------------------------------------------------------------------- C26
\* what attachRooted answers for output wOut in world w, whose attacher has
\* a baseline not before the output
ConsumedInBaselineRule(w, wOut) ==
    With(attachRooted(w, wOut), LAMBDA r :
    LET state == baselineStateReader(w)
        rootedOfIt == {o \in w.a.rooted : o[1] = wOut[1]}
    IN  IF ~KnowsCommittedTransaction(state, wOut[1]) /\ rootedOfIt = {}
        THEN r.ok /\ ~r.isRooted /\ r.w = w
        ELSE IF GetOutput(state, wOut)
        THEN r.ok /\ r.isRooted /\ wOut \in r.w.a.rooted /\ r.w.a.reason = NoReason
        ELSE ~r.ok /\ ~r.isRooted /\ r.w.a.reason = Reason("consumedInBaseline", wOut))

\* C26: for an attacher with a baseline and an output that is not after the
\* baseline: when the baseline state does not know the producing transaction
\* and the attacher has rooted no output of it, attachRooted answers "not
\* rooted" without an error; otherwise it answers "rooted" when the output is
\* in the baseline state and fails with "already consumed in the baseline
\* state" when it is not.
C26_ConsumedInBaselineRule ==
    \A m \in Milestones :
        (att[m].baselineBranch # Nil /\ att[m].reason = NoReason) =>
            \A wOut \in AllOutputIds :
                ~After(Timestamp(wOut[1]), Timestamp(att[m].baselineBranch)) =>
                    ConsumedInBaselineRule(World(m), wOut)

\* the milestone over a transaction that spends an output the baseline has
\* consumed ended Bad with that reason
C26_Witness ==
    /\ scenario = "baseline"
    /\ att[MQ].baselineBranch = BA
    /\ vx[MQ].status = Bad
    /\ vx[MQ].reason = Reason("consumedInBaseline", <<G, 0>>)

\* ---------------------------------------------------------------------- C27
\* the world of the current state, seen from outside every attacher
WorldNow == World(G)

\* C27: a Good branch has its state reader registered in the DAG and is its
\* own baseline branch; any other Good transaction has a baseline branch
\* that is a Good transaction of the DAG.
C27_GoodHasGoodBaseline ==
    \A t \in TxIds :
        vx[t].status = Good =>
            IF IsBranchTransaction(t)
            THEN t \in DOMAIN branches /\ BaselineBranch(WorldNow, t) = t
            ELSE With(BaselineBranch(WorldNow, t), LAMBDA b :
                     /\ b # Nil
                     /\ vx[b].payload # "none"
                     /\ vx[b].status = Good)

\* a new branch and a milestone on it are both Good
C27_Witness ==
    /\ \E t \in TxIds \ {G} :
           IsBranchTransaction(t) /\ vx[t].status = Good /\ t \in DOMAIN branches
    /\ \E t \in TxIds :
           /\ ~IsBranchTransaction(t) /\ vx[t].status = Good
           /\ vx[t].BaselineBranch \in TxIds \ {G}

\* ---------------------------------------------------------------------- C28
\* the transaction whose status decides the baseline of milestone m: the stem
\* predecessor of a branch; the chain predecessor of another milestone, or the
\* first endorsement when the predecessor is of another slot or no milestone
BaselineSource(m) ==
    IF IsBranchTransaction(m)
    THEN MustInputAt(m, Tx(m).stemIdx)[1]
    ELSE With(MustInputAt(m, Tx(m).predIdx)[1], LAMBDA pred :
             IF Slot(pred) # Slot(m) \/ ~IsSequencerMilestone(pred)
             THEN EndorsementAt(m, 0)
             ELSE pred)

\* attacher m has done nothing of the past cone
NoPastConeWork(a, m) ==
    /\ a.baselineBranch = Nil
    /\ a.rooted = {}
    /\ a.validPastVertices = {}
    /\ a.undefinedPastVertices = {m}

\* attacher m waits for its baseline after having asked for a poke
WaitsForBaseline(m) ==
    /\ att[m].phase = "baseline"
    /\ BaselineSource(m) \in att[m].askedForPoke
    /\ vx[m].status = Undefined
    /\ vx[BaselineSource(m)].status = Undefined

\* C28: when the attacher of a milestone runs before its baseline is solid
\* and finds the transaction that decides the baseline Undefined, it asks to
\* be poked with that transaction and stays in the baseline phase, the
\* milestone stays Undefined and nothing of the past cone has been done; and
\* an attacher in the past cone phase always has a Good baseline branch.
C28_BaselineWaitOnlyYields ==
    [][\A m \in TxIds :
          /\ (/\ att[m].phase \in {"started", "baseline"}
              /\ vx[BaselineSource(m)].status = Undefined
              /\ UNCHANGED <<delayed, ctxDone, ingressReturned>>
              /\ \A k \in TxIds \ {m} : att'[k] = att[k]
              /\ AttacherRun(m))
             => /\ att'[m].phase = "baseline"
                /\ BaselineSource(m) \in att'[m].askedForPoke
                /\ vx'[m].status = Undefined
                /\ NoPastConeWork(att'[m], m)
          /\ (att'[m].phase # "none" /\ ~NoPastConeWork(att'[m], m))
             => /\ att'[m].baselineBranch # Nil
                /\ vx'[att'[m].baselineBranch].status = Good]_vars

\* a branch waits for its stem predecessor and another milestone waits for
\* the milestone that decides its baseline
C28_Witness ==
    /\ \E m \in TxIds : IsBranchTransaction(m) /\ WaitsForBaseline(m)
    /\ \E m \in TxIds : ~IsBranchTransaction(m) /\ WaitsForBaseline(m)

\* ---------------------------------------------------------------------- C29
\* attacher m is running
AttacherRunning(m) == att[m].phase \in {"started", "baseline", "pastcone"}

\* the outputs that transaction t consumes
ConsumedBy(t) == {MustInputAt(t, i) : i \in 0..(NumInputs(t) - 1)}

\* the past cone attacher a knows
PastConeOf(a) == a.validPastVertices \cup a.undefinedPastVertices

\* C29 as stated: for every running attacher that has gone through its past
\* cone at least once and every output consumed by a vertex of its past cone,
\* the output is rooted or its producer is in validPastVertices or
\* undefinedPastVertices.
C29_ConsumedRootedOrKnown ==
    \A m \in TxIds :
        att[m].phase = "pastcone" =>
            \A t \in PastConeOf(att[m]) : \A oid \in ConsumedBy(t) :
                oid \in att[m].rooted \/ oid[1] \in PastConeOf(att[m])

\* C29: for every running attacher, every output consumed by a vertex in
\* validPastVertices is rooted or produced by a vertex of the known past
\* cone; an output consumed by a vertex in undefinedPastVertices is rooted,
\* or produced in the known past cone, or the attacher has asked to be poked
\* with its producer, or the baseline is not known yet.
C29_ValidatedConsumeRootedOrKnown ==
    \A m \in TxIds :
        AttacherRunning(m) =>
            /\ \A t \in att[m].validPastVertices : \A oid \in ConsumedBy(t) :
                   oid \in att[m].rooted \/ oid[1] \in PastConeOf(att[m])
            /\ \A t \in att[m].undefinedPastVertices : \A oid \in ConsumedBy(t) :
                   \/ oid \in att[m].rooted
                   \/ oid[1] \in PastConeOf(att[m])
                   \/ oid[1] \in att[m].askedForPoke
                   \/ att[m].baselineBranch = Nil

\* a suspended attacher has validated a vertex with a rooted input, and waits
\* for the producer of an output that an undefined vertex consumes
C29_Witness ==
    \E m \in TxIds :
        /\ att[m].phase = "pastcone"
        /\ \E t \in att[m].validPastVertices : ConsumedBy(t) \cap att[m].rooted # {}
        /\ \E t \in att[m].undefinedPastVertices : \E oid \in ConsumedBy(t) :
               /\ oid \notin att[m].rooted
               /\ oid[1] \notin PastConeOf(att[m])
               /\ oid[1] \in att[m].askedForPoke

\* ---------------------------------------------------------------------- C31
\* the transactions the attacher of m depends on: what the transactions of
\* its past cone consume from and endorse
DepsOf(m) == UNION {DirectDeps(t) : t \in ConeOf(m)}

\* every milestone m depends on is Good or Bad, every other transaction it
\* depends on has arrived or is Bad
DepsSettled(m) ==
    \A d \in DepsOf(m) :
        IF IsSequencerMilestone(d)
        THEN vx[d].status \in {Good, Bad}
        ELSE vx[d].payload = "vertex" \/ vx[d].status = Bad

\* the attacher of m has returned and the milestone is Good or Bad
Terminated(m) == att[m].phase = "done" /\ vx[m].status \in {Good, Bad}

\* C31: with no poke relied upon, only the repetition of lazyRepeat that the
\* periodic timer guarantees: whenever everything the attacher of a milestone
\* depends on is settled, the attacher eventually returns with the milestone
\* Good or Bad.
C31_LostPokesDoNotStall ==
    \A m \in {MA, MW} :
        [](m \in TxIds /\ att[m].phase # "none" /\ DepsSettled(m) => <>Terminated(m))

\* an attacher is suspended in its past cone while everything it depends on
\* is settled: only a wake-up is missing
C31_Witness ==
    \E m \in {MA, MW} :
        /\ m \in TxIds
        /\ att[m].phase = "pastcone"
        /\ att[m].askedForPoke # {}
        /\ DepsSettled(m)

\* ---------------------------------------------------------------------- C32
\* C32: a thread that runs the callback of a notification, and an attacher
\* that waits in the select of lazyRepeat, holds no lock.
C32_NoLockSpansPoke ==
    \A t \in LkThreads :
        LkNextOp(t)[1] \in {"onNotify", "select"} => LkHeldBy(t) = {}

\* ---------------------------------------------------------------------- C37
\* thread t read-holds mutex o and waits for it once more, behind a writer
\* that waits for the readers to leave: neither of the two ever goes on
ReadLockedTwiceBehindWriter(t, o) ==
    /\ lkMutex[o].readers[t] > 0
    /\ LkNextOp(t) = <<"RLock", o>>
    /\ lkMutex[o].writer # ""
    /\ ~lkMutex[o].held

\* C37: BaselineBranch and heaviestBranchForLatestTimeSlot, which take the
\* same read lock twice, never wait for ever for the second one behind a
\* writer that asked for the write lock in between.
C37_ReadLockTwiceCompletes ==
    /\ ~ReadLockedTwiceBehindWriter("baseline", "consumer")
    /\ ~ReadLockedTwiceBehindWriter("heaviest", "tangle")

\* ---------------------------------------------------------------------- C33
\* the targets setNewTarget is called with: those of the factory and nil
PrTargetValues == {PrTargetSeq[i] : i \in DOMAIN PrTargetSeq} \cup {NilLogicalTime}

\* C33: on every proposal the factory can hold and for every target,
\* setNewTarget leaves the best coverage so far at 0 when the target is a
\* slot boundary and leaves it as it was for any other target; the target and
\* the cleared current proposal are set in both cases.
C33_CoverageResetOnSlotBoundary ==
    \A ts \in PrTargetValues :
        With(setNewTarget(prProposal, ts), LAMBDA p :
            /\ p.bestSoFarCoverage =
                  IF IsSlotBoundary(ts) THEN 0 ELSE prProposal.bestSoFarCoverage
            /\ p.targetTs = ts
            /\ p.current = NoTx)

\* the factory holds a proposal with a positive best coverage, which a target
\* that is no slot boundary has to leave alone
C33_Witness ==
    /\ prProposal.bestSoFarCoverage > 0
    /\ prProposal.current # NoTx
    /\ \E ts \in PrTargetValues : ~IsSlotBoundary(ts)
    /\ \E ts \in PrTargetValues : IsSlotBoundary(ts) /\ ts # NilLogicalTime

\* ---------------------------------------------------------------------------
\* C40: under every interleaving of the proposer tasks with setNewTarget, the
\* current proposal of the factory is nil or a transaction whose timestamp is
\* the current target.
PrCurrentTs == <<prProposal.current[1], prProposal.current[2]>>
C40_CurrentProposalIsForTarget ==
    prProposal.current # NoTx =>
        /\ prProposal.targetTs # NilLogicalTime
        /\ PrCurrentTs = prProposal.targetTs

\* a proposal is placed for the current target while a task of an earlier
\* target is still running
C40_Witness ==
    /\ prProposal.current # NoTx
    /\ \E t \in DOMAIN prTasks :
          /\ prTasks[t].targetTs # NilLogicalTime
          /\ prTasks[t].targetTs # prProposal.targetTs


\* ---------------------------------------------------------------------------
\* C39: a failed attachInputID leaves no consumer link behind: whenever it
\* returns false, the consumers of the producing VID are those before the call.
\* attachInputID returns true exactly when it has recorded the producer in
\* consumerVertex.Inputs[inputIdx], so every consumer link a step adds belongs
\* to an input whose producer the consumer has recorded.
LinkAttached(w, p, link) ==
    \E i \in 0..(NumInputs(link[2]) - 1) :
        /\ MustInputAt(link[2], i) = <<p, link[1]>>
        /\ i + 1 \in DOMAIN w[link[2]].Inputs
        /\ w[link[2]].Inputs[i + 1] = p
C39_FailedAttachInputLeavesNoLink ==
    [][\A p \in TxIds :
          vx'[p].consumers # vx[p].consumers =>
              \A link \in vx'[p].consumers \ vx[p].consumers :
                  vx'[link[2]].payload = "vertex" => LinkAttached(vx', p, link)]_vars

\* ---------------------------------------------------------------------------
\* C36: under every interleaving of Push with Close and with the exit of the
\* queue loop, Push never sends on a closed channel: a Push that passed the
\* closing check does not panic.
C36_PushNeverSendsOnClosed == \A t \in Pushers : qPush[t].pc # "panic"

\* ---------------------------------------------------------------------------
\* C38: HeaviestBranchOfLatestTimeSlot is atomic with respect to concurrent
\* branch registration: the branch it returns is the heaviest branch of the
\* maximum branch slot of the DAG at one single moment during the call.
C38_HeaviestBranchIsAtomic == hbPc = "returned" => hbResult \in hbMoments

\* ---------------------------------------------------------------------------
\* C34: makeAdditionalInputsOutputs filters the fee inputs so that the sum of
\* the amounts of the additional outputs it returns is at most maximumTotal,
\* for any list of inputs.
RECURSIVE SumOfSeq(_)
SumOfSeq(q) == IF q = <<>> THEN 0 ELSE Head(q) + SumOfSeq(Tail(q))
C34_AdditionalOutputsWithinMaximum ==
    aoReturned.made => SumOfSeq(aoReturned.retOut) <= aoMaximumTotal

\* ---------------------------------------------------------------------------
\* C35: SequencerMilestoneAttachWait and TransactionInWaitAppend always return
\* under every interleaving of the timeout with the attachment callback: the
\* callback never blocks for ever on the result channel while it holds the
\* close mutex.  A writer that sends while the caller has left the select is
\* never received from, and the caller waits for the mutex the writer holds.
WaitStuck(c) ==
    /\ awMain[c].pc = "defer"
    /\ awWriter[c] = "send"
    /\ awChan[c].mutex = "writer"
C35_WaitAlwaysReturns == \A c \in WaitCalls : ~WaitStuck(c)

====
